---------------------------- MODULE Spec2Model ----------------------------
(***************************************************************************)
(* A model of MediaCleaner's inference and ranking core                    *)
(* (src/media_cleaner.py): quality scoring, episode parsing, title         *)
(* normalisation and duplicate grouping.                                   *)
(*                                                                         *)
(* A Python str is modelled as a sequence of one-character strings, so     *)
(* that substring search, regular-expression matching, slicing and case    *)
(* folding are computed character by character as the code computes them.  *)
(* Names hold no '/' and no line break (they are directory entries).       *)
(***************************************************************************)
EXTENDS Integers, Sequences, FiniteSets, TLC

VARIABLES
  pc,          \* position: "build", "ready", "main", the call made, "done"
  name,        \* the file or folder name handed to the function called
  ntok,        \* number of tokens the name was built from
  quality,     \* the dict returned by get_quality_score, or NoResult
  title_info,  \* the dict returned by get_normalized_title, or NoResult
  title_again, \* get_normalized_title of the normalized title, or NoResult
  info,        \* the dict returned by get_episode_info, or NoResult
  listing,     \* the library directory as iterdir() yields it
  duplicates,  \* the groups returned by find_duplicate_movies, or NoResult
  report,      \* the groups as show_duplicate_report prints them
  tags,        \* config.tags, the ordered list of release tags
  new_name,    \* the values new_name takes in clean_folder_names, or NoResult
  tree,        \* the entries below the library path
  config,      \* the fields of config the routines read, but for tags
  stats,       \* the counters of stats
  step         \* the call process_movies or process_tv_shows has come to

\* the state of folder-name cleaning
clean_vars == <<tags, new_name>>

run_vars == <<tree, config, stats, step>>

vars == <<pc, name, ntok, quality, title_info, title_again, info,
          listing, duplicates, report, clean_vars, run_vars>>

NoResult == [result |-> FALSE]

\* Python's None where the other values are str: a one-element sequence that
\* is no str, since every element of a str is a single character
None == <<"None">>

\* Python's None where the other values are int: season and episode numbers
\* are parsed from digits, so none of them is negative
NoNumber == -1

(***************************************************************************)
(* Bounds                                                                  *)
(***************************************************************************)
MaxScoreTokens == 2
MaxTitleTokens == 3
MaxEpisodeTokens == 4
MaxEntries == 4
MaxCleanTokens == 2
MaxTags == 2
MaxItems == 2

(***************************************************************************)
(* str primitives                                                          *)
(***************************************************************************)
UpperCase == <<"A","B","C","D","E","F","G","H","I","J","K","L","M",
               "N","O","P","Q","R","S","T","U","V","W","X","Y","Z">>
LowerCase == <<"a","b","c","d","e","f","g","h","i","j","k","l","m",
               "n","o","p","q","r","s","t","u","v","w","x","y","z">>

\* str.lower() on one character
LowerChar(c) ==
  IF c \in {UpperCase[k] : k \in 1..26}
  THEN LowerCase[CHOOSE k \in 1..26 : UpperCase[k] = c]
  ELSE c

\* str.lower()
RECURSIVE LowerFrom(_, _)
LowerFrom(s, i) ==
  IF i > Len(s) THEN <<>> ELSE <<LowerChar(s[i])>> \o LowerFrom(s, i + 1)

Lower(s) == LowerFrom(s, 1)

\* s[i:].startswith(t), for a 1-based position i
StartsAt(s, i, t) ==
  /\ i >= 1
  /\ i + Len(t) - 1 <= Len(s)
  /\ \A j \in 1..Len(t) : s[i + j - 1] = t[j]

\* the `in` operator of str: t in s
Contains(s, t) ==
  \/ t = <<>>
  \/ \E i \in 1..(Len(s) - Len(t) + 1) :
       s[i] = t[1] /\ \A j \in 2..Len(t) : s[i + j - 1] = t[j]

(***************************************************************************)
(* get_quality_score: the five if/elif chains, one operator per chain.     *)
(* Each gives the field value the chain sets, the points it adds to        *)
(* 'score' and what it appends to 'details'.                               *)
(***************************************************************************)
\* resolution_tier that reports a 'dvd' name under a label of its own
resolution_tier_dvd(filename_lower) ==
  IF Contains(filename_lower, <<"d","v","d">>)
  THEN [value |-> "DVD", points |-> 40, details |-> <<"480p (+40)">>]
  ELSE [value |-> "Unknown", points |-> 0, details |-> <<>>]

\* resolution_tier whose lowest tier asks for '480p' alone
resolution_tier_480p_only(filename_lower) ==
  IF Contains(filename_lower, <<"2","1","6","0","p">>) \/ Contains(filename_lower, <<"4","k">>) \/ Contains(filename_lower, <<"u","h","d">>)
  THEN [value |-> "2160p", points |-> 100, details |-> <<"4K/2160p (+100)">>]
  ELSE IF Contains(filename_lower, <<"1","0","8","0","p">>)
  THEN [value |-> "1080p", points |-> 80, details |-> <<"1080p (+80)">>]
  ELSE IF Contains(filename_lower, <<"7","2","0","p">>)
  THEN [value |-> "720p", points |-> 60, details |-> <<"720p (+60)">>]
  ELSE IF Contains(filename_lower, <<"4","8","0","p">>)
  THEN [value |-> "480p", points |-> 40, details |-> <<"480p (+40)">>]
  ELSE [value |-> "Unknown", points |-> 0, details |-> <<>>]

resolution_tier(filename_lower) ==
  IF \* '2160p' / '4k' / 'uhd'
     Contains(filename_lower, <<"2","1","6","0","p">>) \/ Contains(filename_lower, <<"4","k">>) \/ Contains(filename_lower, <<"u","h","d">>)
  THEN [value |-> "2160p", points |-> 100, details |-> <<"4K/2160p (+100)">>]
  ELSE IF \* '1080p'
     Contains(filename_lower, <<"1","0","8","0","p">>)
  THEN [value |-> "1080p", points |-> 80, details |-> <<"1080p (+80)">>]
  ELSE IF \* '720p'
     Contains(filename_lower, <<"7","2","0","p">>)
  THEN [value |-> "720p", points |-> 60, details |-> <<"720p (+60)">>]
  ELSE IF \* '480p' / 'dvd'
     Contains(filename_lower, <<"4","8","0","p">>) \/ Contains(filename_lower, <<"d","v","d">>)
  THEN [value |-> "480p", points |-> 40, details |-> <<"480p (+40)">>]
  ELSE [value |-> "Unknown", points |-> 0, details |-> <<>>]

source_tier(filename_lower) ==
  IF \* 'bluray' / 'blu-ray' / 'bdrip' / 'brrip'
     Contains(filename_lower, <<"b","l","u","r","a","y">>) \/ Contains(filename_lower, <<"b","l","u","-","r","a","y">>) \/ Contains(filename_lower, <<"b","d","r","i","p">>) \/ Contains(filename_lower, <<"b","r","r","i","p">>)
  THEN [value |-> "BluRay", points |-> 30, details |-> <<"BluRay (+30)">>]
  ELSE IF \* 'web-dl' / 'webdl'
     Contains(filename_lower, <<"w","e","b","-","d","l">>) \/ Contains(filename_lower, <<"w","e","b","d","l">>)
  THEN [value |-> "WEB-DL", points |-> 25, details |-> <<"WEB-DL (+25)">>]
  ELSE IF \* 'webrip'
     Contains(filename_lower, <<"w","e","b","r","i","p">>)
  THEN [value |-> "WEBRip", points |-> 20, details |-> <<"WEBRip (+20)">>]
  ELSE IF \* 'hdtv'
     Contains(filename_lower, <<"h","d","t","v">>)
  THEN [value |-> "HDTV", points |-> 15, details |-> <<"HDTV (+15)">>]
  ELSE IF \* 'dvdrip'
     Contains(filename_lower, <<"d","v","d","r","i","p">>)
  THEN [value |-> "DVDRip", points |-> 10, details |-> <<"DVDRip (+10)">>]
  ELSE [value |-> "Unknown", points |-> 0, details |-> <<>>]

\* codec_tier that adds the points of HEVC without an entry in details
codec_tier_no_details(filename_lower) ==
  IF Contains(filename_lower, <<"x","2","6","5">>)
  THEN [value |-> "HEVC/x265", points |-> 20, details |-> <<>>]
  ELSE [value |-> "Unknown", points |-> 0, details |-> <<>>]

codec_tier(filename_lower) ==
  IF \* 'x265' / 'h265' / 'h.265' / 'hevc'
     Contains(filename_lower, <<"x","2","6","5">>) \/ Contains(filename_lower, <<"h","2","6","5">>) \/ Contains(filename_lower, <<"h",".","2","6","5">>) \/ Contains(filename_lower, <<"h","e","v","c">>)
  THEN [value |-> "HEVC/x265", points |-> 20, details |-> <<"HEVC/x265 (+20)">>]
  ELSE IF \* 'x264' / 'h264' / 'h.264' / 'avc'
     Contains(filename_lower, <<"x","2","6","4">>) \/ Contains(filename_lower, <<"h","2","6","4">>) \/ Contains(filename_lower, <<"h",".","2","6","4">>) \/ Contains(filename_lower, <<"a","v","c">>)
  THEN [value |-> "x264", points |-> 15, details |-> <<"x264 (+15)">>]
  ELSE IF \* 'xvid' / 'divx'
     Contains(filename_lower, <<"x","v","i","d">>) \/ Contains(filename_lower, <<"d","i","v","x">>)
  THEN [value |-> "XviD", points |-> 5, details |-> <<"XviD (+5)">>]
  ELSE [value |-> "Unknown", points |-> 0, details |-> <<>>]

audio_tier(filename_lower) ==
  IF \* 'atmos'
     Contains(filename_lower, <<"a","t","m","o","s">>)
  THEN [value |-> "Atmos", points |-> 15, details |-> <<"Atmos (+15)">>]
  ELSE IF \* 'truehd'
     Contains(filename_lower, <<"t","r","u","e","h","d">>)
  THEN [value |-> "TrueHD", points |-> 12, details |-> <<"TrueHD (+12)">>]
  ELSE IF \* 'dts-hd' / 'dtshd'
     Contains(filename_lower, <<"d","t","s","-","h","d">>) \/ Contains(filename_lower, <<"d","t","s","h","d">>)
  THEN [value |-> "DTS-HD", points |-> 10, details |-> <<"DTS-HD (+10)">>]
  ELSE IF \* 'dts'
     Contains(filename_lower, <<"d","t","s">>)
  THEN [value |-> "DTS", points |-> 8, details |-> <<"DTS (+8)">>]
  ELSE IF \* 'ac3' / 'dd5.1' / 'dd5 1'
     Contains(filename_lower, <<"a","c","3">>) \/ Contains(filename_lower, <<"d","d","5",".","1">>) \/ Contains(filename_lower, <<"d","d","5"," ","1">>)
  THEN [value |-> "AC3", points |-> 5, details |-> <<"AC3 (+5)">>]
  ELSE IF \* 'aac'
     Contains(filename_lower, <<"a","a","c">>)
  THEN [value |-> "AAC", points |-> 3, details |-> <<"AAC (+3)">>]
  ELSE [value |-> "Unknown", points |-> 0, details |-> <<>>]

\* hdr_tier with the plain 'hdr' test first in the chain
hdr_tier_plain_first(filename_lower) ==
  IF Contains(filename_lower, <<"h","d","r">>)
  THEN [value |-> TRUE, points |-> 10, details |-> <<"HDR (+10)">>]
  ELSE [value |-> FALSE, points |-> 0, details |-> <<>>]

\* hdr_tier that looks at config.dry_run before the name
hdr_tier_dry_run(filename_lower) ==
  IF ~config.dry_run /\ Contains(filename_lower, <<"h","d","r">>)
  THEN [value |-> TRUE, points |-> 10, details |-> <<"HDR (+10)">>]
  ELSE [value |-> FALSE, points |-> 0, details |-> <<>>]

hdr_tier(filename_lower) ==
  IF \* 'hdr10+' / 'hdr10plus'
     Contains(filename_lower, <<"h","d","r","1","0","+">>) \/ Contains(filename_lower, <<"h","d","r","1","0","p","l","u","s">>)
  THEN [value |-> TRUE, points |-> 15, details |-> <<"HDR10+ (+15)">>]
  ELSE IF \* 'dolby vision' / 'dolbyvision' / 'dovi' / ' dv '
     Contains(filename_lower, <<"d","o","l","b","y"," ","v","i","s","i","o","n">>) \/ Contains(filename_lower, <<"d","o","l","b","y","v","i","s","i","o","n">>) \/ Contains(filename_lower, <<"d","o","v","i">>) \/ Contains(filename_lower, <<" ","d","v"," ">>)
  THEN [value |-> TRUE, points |-> 15, details |-> <<"Dolby Vision (+15)">>]
  ELSE IF \* 'hdr10'
     Contains(filename_lower, <<"h","d","r","1","0">>)
  THEN [value |-> TRUE, points |-> 12, details |-> <<"HDR10 (+12)">>]
  ELSE IF \* 'hdr'
     Contains(filename_lower, <<"h","d","r">>)
  THEN [value |-> TRUE, points |-> 10, details |-> <<"HDR (+10)">>]
  ELSE [value |-> FALSE, points |-> 0, details |-> <<>>]

get_quality_score(filename) ==
  LET filename_lower == Lower(filename)
      r == resolution_tier(filename_lower)
      s == source_tier(filename_lower)
      c == codec_tier(filename_lower)
      a == audio_tier(filename_lower)
      h == hdr_tier(filename_lower)
  IN  [score      |-> 0 + r.points + s.points + c.points + a.points + h.points,
       resolution |-> r.value,
       codec      |-> c.value,
       source     |-> s.value,
       audio      |-> a.value,
       hdr        |-> h.value,
       details    |-> r.details \o s.details \o c.details \o a.details \o h.details]

(***************************************************************************)
(* Helpers for the regular expressions                                     *)
(***************************************************************************)
Min(S) == CHOOSE x \in S : \A y \in S : x <= y
Max(S) == CHOOSE x \in S : \A y \in S : x >= y

Digits == <<"0","1","2","3","4","5","6","7","8","9">>

\* \d
IsDigit(c) == \E k \in 1..10 : Digits[k] = c

\* \s (the blank and the tab stand for the whitespace class)
IsSpace(c) == c \in {" ", "\t"}

\* [.\s_-]
IsSep(c) == c = "." \/ IsSpace(c) \/ c = "_" \/ c = "-"

\* s[a-1:b] in Python terms: the characters at the 1-based positions a..b
\* that the text has (a slice is clamped, never out of range)
Slice(s, a, b) ==
  SubSeq(s, IF a < 1 THEN 1 ELSE a, IF b > Len(s) THEN Len(s) ELSE b)

\* s[i-1:] in Python terms: the text from 1-based position i on
From(s, i) == SubSeq(s, i, Len(s))

\* s[:i-1] in Python terms: the text before 1-based position i
Before(s, i) == SubSeq(s, 1, i - 1)

\* str.strip()
Strip(s) ==
  LET keep == {i \in 1..Len(s) : ~IsSpace(s[i])}
  IN  IF keep = {} THEN <<>> ELSE SubSeq(s, Min(keep), Max(keep))

\* re.sub(r'\.', ' ', s) and re.sub(r'[_-]', ' ', s): every character of
\* `chars` becomes a blank
RECURSIVE ReplaceFrom(_, _, _)
ReplaceFrom(s, chars, i) ==
  IF i > Len(s) THEN <<>>
  ELSE <<IF s[i] \in chars THEN " " ELSE s[i]>> \o ReplaceFrom(s, chars, i + 1)

ReplaceBySpace(s, chars) == ReplaceFrom(s, chars, 1)

\* re.sub(r'\s+', ' ', s): every run of whitespace becomes one blank
RECURSIVE CollapseFrom(_, _)
CollapseFrom(s, i) ==
  IF i > Len(s) THEN <<>>
  ELSE IF ~IsSpace(s[i]) THEN <<s[i]>> \o CollapseFrom(s, i + 1)
  ELSE IF i > 1 /\ IsSpace(s[i - 1]) THEN CollapseFrom(s, i + 1)
  ELSE <<" ">> \o CollapseFrom(s, i + 1)

CollapseSpaces(s) == CollapseFrom(s, 1)

\* pathlib's Path(name).stem for a name without '/': Path('.') has an empty
\* name; the suffix starts at the last '.', unless that dot is the first or
\* the last character of the name
Stem(filename) ==
  LET nm   == IF filename = <<".">> THEN <<>> ELSE filename
      dots == {i \in 1..Len(nm) : nm[i] = "."}
      i    == IF dots = {} THEN 0 ELSE Max(dots)
  IN  IF 1 < i /\ i < Len(nm) THEN Before(nm, i) ELSE nm

\* re.sub(r'\s*(tag|tag|...).*$', '', s, flags=re.IGNORECASE): the text is
\* cut at the leftmost tag, together with the whitespace right before it
TagCut(s, tag_set) ==
  LET low  == Lower(s)
      hits == {i \in 1..Len(s) : \E t \in tag_set : StartsAt(low, i, t)}
      q    == Min(hits)
      ws   == {i \in 1..q : \A j \in i..(q - 1) : IsSpace(s[j])}
  IN  IF hits = {} THEN s ELSE Before(s, Min(ws))

(***************************************************************************)
(* get_normalized_title                                                    *)
(***************************************************************************)
\* (19|20)\d{2} matches at position i
YearAt(s, i) ==
  /\ i >= 1
  /\ i + 3 <= Len(s)
  /\ \/ s[i] = "1" /\ s[i + 1] = "9"
     \/ s[i] = "2" /\ s[i + 1] = "0"
  /\ IsDigit(s[i + 2])
  /\ IsDigit(s[i + 3])

YearPositions(s) == {i \in 1..Len(s) : YearAt(s, i)}

\* re.search(r'(19|20)\d{2}', basename): the leftmost match, or None
year_match(basename) ==
  IF YearPositions(basename) = {} THEN None
  ELSE SubSeq(basename, Min(YearPositions(basename)),
              Min(YearPositions(basename)) + 3)

\* YearCut with the match starting at the last year of the text
YearCut_last(basename) ==
  LET ys == YearPositions(basename)
  IN  IF ys = {} THEN basename ELSE Before(basename, Max(ys))

\* re.sub(r'[\(\[]?(19|20)\d{2}[\)\]]?.*$', '', basename): the match starts
\* at the leftmost year, or at the '(' or '[' right before it, and runs to
\* the end of the text
YearCut(basename) ==
  LET ys == YearPositions(basename)
      p  == Min(ys)
  IN  IF ys = {} THEN basename
      ELSE IF p > 1 /\ basename[p - 1] \in {"(", "["}
           THEN Before(basename, p - 1)
           ELSE Before(basename, p)

\* the release tags of the second re.sub, as the case-insensitive match
\* sees them
TitleTags ==
  { <<"7","2","0","p">>,
    <<"1","0","8","0","p">>,
    <<"2","1","6","0","p">>,
    <<"4","k">>,
    <<"h","d","r","i","p">>,
    <<"d","v","d","r","i","p">>,
    <<"b","r","r","i","p">>,
    <<"b","l","u","r","a","y">>,
    <<"w","e","b","-","d","l">>,
    <<"w","e","b","r","i","p">>,
    <<"x","2","6","4">>,
    <<"x","2","6","5">>,
    <<"h","e","v","c">> }

\* the alternatives of (the|a|an)
Articles == {<<"t","h","e">>, <<"a">>, <<"a","n">>}

\* StripArticle with nothing required after the article: ^(the|a|an)
StripArticle_prefix(title) ==
  IF StartsAt(title, 1, <<"t","h","e">>) THEN From(title, 4)
  ELSE IF StartsAt(title, 1, <<"a">>) THEN From(title, 2)
  ELSE title

\* StripArticle with \s* after the article
StripArticle_any(title) ==
  LET arts == {a \in Articles :
                 StartsAt(title, 1, a)}
      a    == CHOOSE x \in arts : \A y \in arts : Len(y) >= Len(x)
  IN  IF arts = {} THEN title ELSE Strip(From(title, Len(a) + 1))

\* re.sub(r'^(the|a|an)\s+', '', title)
StripArticle(title) ==
  LET arts == {a \in Articles :
                 /\ StartsAt(title, 1, a)
                 /\ Len(title) > Len(a)
                 /\ IsSpace(title[Len(a) + 1])}
      a    == CHOOSE x \in arts : TRUE
      rest == {i \in (Len(a) + 1)..(Len(title) + 1) :
                 \A j \in (Len(a) + 1)..(i - 1) : IsSpace(title[j])}
  IN  IF arts = {} THEN title ELSE From(title, Max(rest))

\* NormalizeTitle without the collapse of whitespace runs
NormalizeTitle_no_collapse(title) ==
  Lower(Strip(ReplaceBySpace(ReplaceBySpace(title, {"."}), {"_", "-"})))

\* the 'Normalize' steps: dots, underscores and hyphens to blanks, whitespace
\* runs to one blank, strip, lower
NormalizeTitle(title) ==
  Lower(Strip(CollapseSpaces(
    ReplaceBySpace(ReplaceBySpace(title, {"."}), {"_", "-"}))))

get_normalized_title(nm) ==
  LET basename == Stem(nm)
      title    == TagCut(YearCut(basename), TitleTags)
  IN  [normalized_title |-> StripArticle(NormalizeTitle(title)),
       year             |-> year_match(basename)]

(***************************************************************************)
(* get_episode_info                                                        *)
(*                                                                         *)
(* Each pattern is '^(.+?)<marker><rest>$' under re.match: the lazy group 1 *)
(* takes the fewest characters (at least one) after which the marker       *)
(* matches.  PatternNAt(s, k) is the match with group 1 = s[:k]; the       *)
(* greedy quantifiers of the marker never give characters back, since      *)
(* what follows each of them cannot match a character of its class.        *)
(***************************************************************************)
\* the character at position i, or "" outside the text
CharAt(s, i) == IF 1 <= i /\ i <= Len(s) THEN s[i] ELSE ""

\* the position after the longest run of [.\s_-] that starts at i
SepRunEnd(s, i) ==
  IF i > Len(s) THEN i
  ELSE Min({j \in i..(Len(s) + 1) : ~IsSep(CharAt(s, j))})

\* the position after the longest run of \s that starts at i
SpaceRunEnd(s, i) ==
  IF i > Len(s) THEN i
  ELSE Min({j \in i..(Len(s) + 1) : ~IsSpace(CharAt(s, j))})

\* int() of one or two decimal digits
DigitValue(c) == (CHOOSE k \in 1..10 : Digits[k] = c) - 1
ToInt(ds) ==
  IF Len(ds) = 1 THEN DigitValue(ds[1])
  ELSE 10 * DigitValue(ds[1]) + DigitValue(ds[2])

\* GreedyDigits for (\d): one digit
OneDigit(s, i) == IF IsDigit(CharAt(s, i)) THEN 1 ELSE 0

\* greedy (\d{1,2}) at position i with nothing required after it: the number
\* of digits taken, 0 when it does not match
GreedyDigits(s, i) ==
  IF ~IsDigit(CharAt(s, i)) THEN 0
  ELSE IF IsDigit(CharAt(s, i + 1)) THEN 2 ELSE 1

\* (\d{1,2}) at position i when a character of `next` must follow it
DigitsBefore(s, i, next) ==
  IF IsDigit(CharAt(s, i)) /\ IsDigit(CharAt(s, i + 1))
     /\ CharAt(s, i + 2) \in next THEN 2
  ELSE IF IsDigit(CharAt(s, i)) /\ CharAt(s, i + 1) \in next THEN 1
  ELSE 0

\* ExtraEpisode for (?:-(\d{1,2}))?: the hyphen only
ExtraEpisode_hyphen(s, i) ==
  IF CharAt(s, i) = "-" THEN GreedyDigits(s, i + 1) ELSE 0

\* (?:[Ee-](\d{1,2}))? at position i: the number of digits of the group, 0
\* when the optional group is skipped
ExtraEpisode(s, i) ==
  IF CharAt(s, i) \in {"E", "e", "-"} THEN GreedyDigits(s, i + 1) ELSE 0

\* Pattern 1: [.\s_-]+[Ss](\d{1,2})[Ee](\d{1,2})(?:[Ee-](\d{1,2}))?(?:[Ee-](\d{1,2}))?<rest>$
\* Pattern1Ok(s, k): the marker matches right after s[:k]
Pattern1Ok(s, k) ==
  LET j == SepRunEnd(s, k + 1)               \* where [Ss] must stand
      n == DigitsBefore(s, j + 1, {"E", "e"}) \* digits of group 2
  IN  /\ IsSep(CharAt(s, k + 1))
      /\ CharAt(s, j) \in {"S", "s"}
      /\ n > 0
      /\ GreedyDigits(s, j + n + 2) > 0

\* the groups of that match
Pattern1At(s, k) ==
  LET j  == SepRunEnd(s, k + 1)
      n  == DigitsBefore(s, j + 1, {"E", "e"})
      e  == j + 1 + n                          \* where [Ee] stands
      m  == GreedyDigits(s, e + 1)             \* digits of group 3
      p4 == e + 1 + m
      n4 == ExtraEpisode(s, p4)                \* digits of group 4
      p5 == IF n4 = 0 THEN p4 ELSE p4 + 1 + n4
      n5 == ExtraEpisode(s, p5)                \* digits of group 5
      p6 == IF n5 = 0 THEN p5 ELSE p5 + 1 + n5
  IN  [g1 |-> Slice(s, 1, k),
       g2 |-> Slice(s, j + 1, j + n),
       g3 |-> Slice(s, e + 1, e + m),
       g4 |-> IF n4 = 0 THEN None ELSE Slice(s, p4 + 1, p4 + n4),
       g5 |-> IF n5 = 0 THEN None ELSE Slice(s, p5 + 1, p5 + n5),
       g6 |-> From(s, p6)]

\* Pattern 2: [.\s_-]+(\d{1,2})x(\d{1,2})<rest>$
Pattern2Ok(s, k) ==
  LET j == SepRunEnd(s, k + 1)
      n == DigitsBefore(s, j, {"x"})
  IN  /\ IsSep(CharAt(s, k + 1))
      /\ n > 0
      /\ GreedyDigits(s, j + n + 1) > 0

Pattern2At(s, k) ==
  LET j == SepRunEnd(s, k + 1)
      n == DigitsBefore(s, j, {"x"})
      m == GreedyDigits(s, j + n + 1)
  IN  [g1 |-> Slice(s, 1, k),
       g2 |-> Slice(s, j, j + n - 1),
       g3 |-> Slice(s, j + n + 1, j + n + m)]

\* Pattern 3, re.IGNORECASE:
\* [.\s_-]+Season\s*(\d{1,2})[.\s_-]+Episode\s*(\d{1,2})<rest>$
Pattern3Ok(s, k) ==
  LET j == SepRunEnd(s, k + 1)
      a == SpaceRunEnd(s, j + 6)
      n == DigitsBefore(s, a, {".", " ", "\t", "_", "-"})
      b == SepRunEnd(s, a + n)
      c == SpaceRunEnd(s, b + 7)
  IN  /\ IsSep(CharAt(s, k + 1))
      /\ StartsAt(Lower(Slice(s, j, j + 5)), 1, <<"s","e","a","s","o","n">>)
      /\ n > 0
      /\ StartsAt(Lower(Slice(s, b, b + 6)), 1,
                  <<"e","p","i","s","o","d","e">>)
      /\ GreedyDigits(s, c) > 0

Pattern3At(s, k) ==
  LET j == SepRunEnd(s, k + 1)
      a == SpaceRunEnd(s, j + 6)
      n == DigitsBefore(s, a, {".", " ", "\t", "_", "-"})
      b == SepRunEnd(s, a + n)
      c == SpaceRunEnd(s, b + 7)
      m == GreedyDigits(s, c)
  IN  [g1 |-> Slice(s, 1, k),
       g2 |-> Slice(s, a, a + n - 1),
       g3 |-> Slice(s, c, c + m - 1)]

Match1(s) == {k \in 1..Len(s) : Pattern1Ok(s, k)}
Match2(s) == {k \in 1..Len(s) : Pattern2Ok(s, k)}
Match3(s) == {k \in 1..Len(s) : Pattern3Ok(s, k)}

\* the release tags that end an episode title, as the case-insensitive match
\* sees them
EpisodeTitleTags ==
  { <<"7","2","0","p">>,
    <<"1","0","8","0","p">>,
    <<"2","1","6","0","p">>,
    <<"4","k">>,
    <<"h","d","t","v">>,
    <<"w","e","b","-","d","l">>,
    <<"w","e","b","r","i","p">>,
    <<"b","l","u","r","a","y">>,
    <<"x","2","6","4">>,
    <<"x","2","6","5">>,
    <<"h","e","v","c">>,
    <<"a","a","c">>,
    <<"a","c","3">> }

\* the 'remainder' of pattern 1, cleaned; None when nothing is left of it
episode_title(g6) ==
  LET r1 == From(g6, SepRunEnd(g6, 1))         \* re.sub(r'^[.\s_-]+', '', .)
      r2 == ReplaceBySpace(r1, {"."})
      r3 == TagCut(r2, EpisodeTitleTags)
  IN  IF g6 = <<>> \/ Strip(r3) = <<>> THEN None ELSE Strip(r3)

\* show_title without strip()
show_title_unstripped(g1) == ReplaceBySpace(g1, {"."})

\* re.sub(r'\.', ' ', match.group(1)).strip()
show_title(g1) == Strip(ReplaceBySpace(g1, {"."}))

\* the default dict with numbers 0 in place of None
NoEpisodeInfo_zero ==
  [season |-> 0, episode |-> 0, episodes |-> <<>>,
   show_title |-> None,
   episode_title |-> None, is_multi_episode |-> FALSE]

NoEpisodeInfo ==
  [season |-> NoNumber, episode |-> NoNumber, episodes |-> <<>>,
   show_title |-> None,
   episode_title |-> None, is_multi_episode |-> FALSE]

Pattern1Info(mt) ==
  [season           |-> ToInt(mt.g2),
   episode          |-> ToInt(mt.g3),
   episodes         |-> <<ToInt(mt.g3)>>
                        \o (IF mt.g4 # None THEN <<ToInt(mt.g4)>> ELSE <<>>)
                        \o (IF mt.g5 # None THEN <<ToInt(mt.g5)>> ELSE <<>>),
   show_title       |-> show_title(mt.g1),
   episode_title    |-> episode_title(mt.g6),
   is_multi_episode |-> mt.g4 # None]

\* Pattern23Info that leaves 'episodes' empty
Pattern23Info_no_list(mt) ==
  [season           |-> ToInt(mt.g2),
   episode          |-> ToInt(mt.g3),
   episodes         |-> <<>>,
   show_title       |-> show_title(mt.g1),
   episode_title    |-> None,
   is_multi_episode |-> FALSE]

\* patterns 2 and 3 fill the same four fields
Pattern23Info(mt) ==
  [season           |-> ToInt(mt.g2),
   episode          |-> ToInt(mt.g3),
   episodes         |-> <<ToInt(mt.g3)>>,
   show_title       |-> show_title(mt.g1),
   episode_title    |-> None,
   is_multi_episode |-> FALSE]

\* get_episode_info with the 1x01 pattern tried before the S01E01 pattern
get_episode_info_x_first(filename) ==
  LET basename == Stem(filename)
  IN  IF Match2(basename) # {}
        THEN Pattern23Info(Pattern2At(basename, Min(Match2(basename))))
      ELSE IF Match1(basename) # {}
        THEN Pattern1Info(Pattern1At(basename, Min(Match1(basename))))
      ELSE IF Match3(basename) # {}
        THEN Pattern23Info(Pattern3At(basename, Min(Match3(basename))))
      ELSE NoEpisodeInfo

get_episode_info(filename) ==
  LET basename == Stem(filename)
  IN  IF Match1(basename) # {}
        THEN Pattern1Info(Pattern1At(basename, Min(Match1(basename))))
      ELSE IF Match2(basename) # {}
        THEN Pattern23Info(Pattern2At(basename, Min(Match2(basename))))
      ELSE IF Match3(basename) # {}
        THEN Pattern23Info(Pattern3At(basename, Min(Match3(basename))))
      ELSE NoEpisodeInfo

(***************************************************************************)
(* find_duplicate_movies and show_duplicate_report                         *)
(*                                                                         *)
(* A directory entry of the library is [name, is_dir, videos]; videos is   *)
(* the set of sizes of the video files that lie directly in the folder.    *)
(* The order of `listing` is the order in which iterdir() yields the       *)
(* entries.  Filesystem errors (which make find_duplicate_movies return    *)
(* []) are not modelled.                                                   *)
(***************************************************************************)
\* "_Trailers"
TrailersFolder == <<"_","T","r","a","i","l","e","r","s">>

\* f.is_dir() and f.name != '_Trailers'
IsMovieFolder(f) == f.is_dir /\ f.name # TrailersFolder

movie_folders(dir) == SelectSeq(dir, IsMovieFolder)

\* max((f.stat().st_size for f in video_files), default=0) if video_files else 0
file_size(folder) == IF folder.videos = {} THEN 0 ELSE Max(folder.videos)

\* the entry dict of one folder (path is kept relative to the library root)
movie_entry(folder, ti) ==
  [path          |-> folder.name,
   original_name |-> folder.name,
   year          |-> ti.year,
   quality       |-> get_quality_score(folder.name),
   file_size     |-> file_size(folder)]

\* movie_key without the year
movie_key_title_only(ti) == ti.normalized_title

\* key = normalized_title, or f"{key}|{year}" when a year was found
movie_key(ti) ==
  IF ti.year # None THEN ti.normalized_title \o <<"|">> \o ti.year
  ELSE ti.normalized_title

\* title_lookup[key].append(entry), with a new list for a new key; the dict
\* is a sequence of [key, entries] in the order the keys were first inserted
lookup_append(lookup, key, entry) ==
  IF \E i \in 1..Len(lookup) : lookup[i].key = key
  THEN LET i == CHOOSE i \in 1..Len(lookup) : lookup[i].key = key
       IN  [lookup EXCEPT ![i].entries = Append(@, entry)]
  ELSE Append(lookup, [key |-> key, entries |-> <<entry>>])

\* one pass of the loop over movie_folders
scan_folder(lookup, folder) ==
  LET ti == get_normalized_title(folder.name)      \* title_info
  IN  lookup_append(lookup, movie_key(ti), movie_entry(folder, ti))

\* title_lookup after the first n folders
RECURSIVE title_lookup(_, _)
title_lookup(folders, n) ==
  IF n = 0 THEN <<>>
  ELSE scan_folder(title_lookup(folders, n - 1), folders[n])

\* lookup_duplicates with len(entries) > 0 as the test
RECURSIVE lookup_nonempty(_, _)
lookup_nonempty(lookup, i) ==
  IF i > Len(lookup) THEN <<>>
  ELSE (IF Len(lookup[i].entries) > 0 THEN <<lookup[i].entries>> ELSE <<>>)
       \o lookup_nonempty(lookup, i + 1)

\* [entries for entries in title_lookup.values() if len(entries) > 1]
RECURSIVE lookup_duplicates(_, _)
lookup_duplicates(lookup, i) ==
  IF i > Len(lookup) THEN <<>>
  ELSE (IF Len(lookup[i].entries) > 1 THEN <<lookup[i].entries>> ELSE <<>>)
       \o lookup_duplicates(lookup, i + 1)

find_duplicate_movies(dir) ==
  LET folders == movie_folders(dir)
  IN  IF folders = <<>> THEN <<>>
      ELSE lookup_duplicates(title_lookup(folders, Len(folders)), 1)

\* sorted(group, key=lambda x: x['quality']['score'], reverse=True): Python's
\* sort is stable, also with reverse=True, so entries of equal score keep
\* their order

\* the key of a sort by file size
sort_key_file_size(x) == x.file_size

\* the key of the lambda
sort_key(x) == x.quality.score

insert_sorted(sorted, x) ==
  LET ahead == {i \in 1..Len(sorted) : sort_key(sorted[i]) >= sort_key(x)}
      p     == IF ahead = {} THEN 0 ELSE Max(ahead)
  IN  SubSeq(sorted, 1, p) \o <<x>> \o SubSeq(sorted, p + 1, Len(sorted))

RECURSIVE sorted_group(_, _)
sorted_group(group, n) ==
  IF n = 0 THEN <<>> ELSE insert_sorted(sorted_group(group, n - 1), group[n])

\* the lines printed for one group: [KEEP] before the first, [DEL?] before
\* the others
report_group(group) ==
  LET sorted == sorted_group(group, Len(group))
  IN  [i \in 1..Len(sorted) |->
         [mark          |-> IF i = 1 THEN "KEEP" ELSE "DEL?",
          original_name |-> sorted[i].original_name,
          score         |-> sorted[i].quality.score,
          file_size     |-> sorted[i].file_size]]

\* the report, one sequence of lines per group (empty: "No duplicate movies
\* found!")
show_duplicate_report(dups) == [g \in 1..Len(dups) |-> report_group(dups[g])]

(***************************************************************************)
(* clean_folder_names: the new name of one folder                          *)
(***************************************************************************)
\* Config.tags
ConfigTags ==
  << <<"1","0","8","0","p">>,
     <<"2","1","6","0","p">>,
     <<"7","2","0","p">>,
     <<"4","8","0","p">>,
     <<"4","K">>,
     <<"2","K">>,
     <<"U","H","D">>,
     <<"H","D","R","i","p">>,
     <<"D","V","D","R","i","p">>,
     <<"B","R","R","i","p">>,
     <<"B","R","-","R","i","p">>,
     <<"B","D","R","i","p">>,
     <<"B","D","-","R","i","p">>,
     <<"W","E","B","-","D","L">>,
     <<"W","E","B","R","i","p">>,
     <<"B","l","u","R","a","y">>,
     <<"x","2","6","4">>,
     <<"x","2","6","5">>,
     <<"X","2","6","5">>,
     <<"H","2","6","4">>,
     <<"H","2","6","5">>,
     <<"H","E","V","C">>,
     <<"X","v","i","D">>,
     <<"D","i","v","X">>,
     <<"A","V","C">>,
     <<"A","A","C">>,
     <<"A","C","3">>,
     <<"D","T","S">>,
     <<"A","t","m","o","s">>,
     <<"T","r","u","e","H","D">>,
     <<"D","D","5",".","1">>,
     <<"5",".","1">>,
     <<"7",".","1">>,
     <<"H","D","R">>,
     <<"H","D","R","1","0">>,
     <<"H","D","R","1","0","+">>,
     <<"D","o","l","b","y","V","i","s","i","o","n">>,
     <<"S","D","R">>,
     <<"1","0","b","i","t">>,
     <<"E","x","t","e","n","d","e","d">>,
     <<"U","n","r","a","t","e","d">>,
     <<"R","e","m","a","s","t","e","r","e","d">>,
     <<"R","E","P","A","C","K">>,
     <<"P","R","O","P","E","R">>,
     <<"Y","I","F","Y">>,
     <<"Y","T","S">>,
     <<"R","A","R","B","G">>,
     <<"S","P","A","R","K","S">>,
     <<"N","F">>,
     <<"A","M","Z","N">>,
     <<"H","U","L","U">>,
     <<"W","E","B">> >>

\* str.strip(chars): the characters of `chars` are taken off both ends
strip_chars(s, chars) ==
  LET keep == {i \in 1..Len(s) : s[i] \notin chars}
  IN  IF keep = {} THEN <<>> ELSE SubSeq(s, Min(keep), Max(keep))

\* tag.lower() in new_name.lower()
tag_in_name(tag, nm) == Contains(Lower(nm), Lower(tag))

\* pattern.split(new_name)[0] for re.compile(re.escape(tag), re.IGNORECASE):
\* the text before the leftmost match of the tag (an empty pattern matches
\* at the start)
parts_0(tag, nm) ==
  LET low  == Lower(nm)
      hits == {i \in 1..Len(nm) : StartsAt(low, i, Lower(tag))}
  IN  IF tag = <<>> \/ hits = {} THEN (IF tag = <<>> THEN <<>> ELSE nm)
      ELSE Before(nm, Min(hits))

\* remove_tag without the test that the trimmed prefix is non-empty
remove_tag_unguarded(nm, tag) ==
  IF tag_in_name(tag, nm)
  THEN strip_chars(parts_0(tag, nm), {" ", ".", "-"})
  ELSE nm

\* the body of the loop over config.tags for one tag
remove_tag(nm, tag) ==
  IF tag_in_name(tag, nm) /\ strip_chars(parts_0(tag, nm), {" ", ".", "-"}) # <<>>
  THEN strip_chars(parts_0(tag, nm), {" ", ".", "-"})
  ELSE nm

\* remove_tags leaving the loop after the first tag that shortens the name
RECURSIVE remove_tags_once(_, _, _)
remove_tags_once(nm, tag_list, i) ==
  IF i > Len(tag_list) THEN nm
  ELSE LET shorter == remove_tag(nm, tag_list[i])
       IN  IF shorter = nm
           THEN remove_tags_once(nm, tag_list, i + 1)
           ELSE shorter

\* the loop over config.tags from the i-th tag on (each pass is computed
\* before the next one starts)
RECURSIVE remove_tags(_, _, _)
remove_tags(nm, tag_list, i) ==
  IF i > Len(tag_list) THEN nm
  ELSE LET shorter == remove_tag(nm, tag_list[i])
       IN  IF Len(shorter) <= Len(nm)
           THEN remove_tags(shorter, tag_list, i + 1)
           ELSE shorter

\* replace_dots without the test for a dot
replace_dots_always(nm) == Strip(CollapseSpaces(ReplaceBySpace(nm, {"."})))

\* replace_dots that replaces the first dot only
replace_dots_first(nm) ==
  LET dots == {i \in 1..Len(nm) : nm[i] = "."}
  IN  IF dots # {}
      THEN Strip(CollapseSpaces([nm EXCEPT ![Min(dots)] = " "]))
      ELSE nm

\* if '.' in new_name: dots to blanks, whitespace runs to one blank, strip()
replace_dots(nm) ==
  IF \E i \in 1..Len(nm) : nm[i] = "."
  THEN Strip(CollapseSpaces(ReplaceBySpace(nm, {"."})))
  ELSE nm

\* re.search(r'\s(19|20)(\d{2})$', new_name), and when it matches
\* re.sub(r'\s((19|20)\d{2})$', r' (\1)', new_name)
format_year(nm) ==
  IF Len(nm) >= 5 /\ IsSpace(nm[Len(nm) - 4]) /\ YearAt(nm, Len(nm) - 3)
  THEN SubSeq(nm, 1, Len(nm) - 5) \o <<" ", "(">>
       \o SubSeq(nm, Len(nm) - 3, Len(nm)) \o <<")">>
  ELSE nm

\* new_name of a folder named folder_name
clean_name(folder_name, tag_list) ==
  format_year(replace_dots(remove_tags(folder_name, tag_list, 1)))

(***************************************************************************)
(* The library on disk and the two routines                                *)
(*                                                                         *)
(* The library is the set of its entries; an entry has its path from the   *)
(* library root (a sequence of names), is a directory or a file, and has a *)
(* size.  File names are compared as on a case-sensitive file system, and  *)
(* a directory is listed before the loop over its entries starts.          *)
(***************************************************************************)
video_extensions ==
  {<<".","m","p","4">>, <<".","m","k","v">>, <<".","a","v","i">>, <<".","m","o","v">>, <<".","w","m","v">>, <<".","f","l","v">>, <<".","m","4","v">>}

archive_extensions ==
  {<<".","r","a","r">>, <<".","z","i","p">>, <<".","7","z">>, <<".","t","a","r">>, <<".","g","z">>, <<".","b","z","2">>}

\* Config(): the fields the routines read, but for tags
DefaultConfig ==
  [dry_run          |-> FALSE,
   seven_zip_path   |-> FALSE,
   keep_subtitles   |-> TRUE,
   keep_trailers    |-> TRUE,
   organize_seasons |-> TRUE,
   check_duplicates |-> FALSE]

\* Stats(): the counters the routines write
ZeroStats ==
  [files_deleted         |-> 0,
   bytes_deleted         |-> 0,
   archives_extracted    |-> 0,
   archives_failed       |-> 0,
   folders_created       |-> 0,
   folders_renamed       |-> 0,
   files_moved           |-> 0,
   empty_folders_removed |-> 0,
   subtitles_processed   |-> 0,
   subtitles_deleted     |-> 0,
   trailers_moved        |-> 0]

\* no routine was started: the module is loaded
RunIdle ==
  /\ tree = {}
  /\ config = DefaultConfig
  /\ stats = ZeroStats
  /\ step = 0

\* str(n) for n >= 0
RECURSIVE Str(_)
Str(n) ==
  IF n < 10 THEN <<Digits[n + 1]>>
  ELSE Str(n \div 10) \o <<Digits[(n % 10) + 1]>>

EndsWith(s, t) ==
  Len(s) >= Len(t) /\ SubSeq(s, Len(s) - Len(t) + 1, Len(s)) = t

\* Path.name
PathName(p) == p[Len(p)]

Dir(p) == [path |-> p, dir |-> TRUE, size |-> 0]

\* Path.exists(); the empty path is the library root
Exists(t, p) == p = <<>> \/ \E e \in t : e.path = p

Under(p, top) == Len(p) > Len(top) /\ SubSeq(p, 1, Len(top)) = top

\* os.rename as shutil.move and Path.rename use it: the entry and what lies
\* under it get the new path; a file at the new path is replaced
Rename(t, old, new) ==
  {IF e.path = old \/ Under(e.path, old)
   THEN [e EXCEPT !.path = new \o SubSeq(e.path, Len(old) + 1, Len(e.path))]
   ELSE e : e \in {f \in t : f.path # new /\ ~Under(f.path, new)}}

\* sum(f.stat().st_size ...) over the files of a set of entries
RECURSIVE TotalSize(_)
TotalSize(es) ==
  IF es = {} THEN 0
  ELSE LET e == CHOOSE x \in es : TRUE IN e.size + TotalSize(es \ {e})

\* the orders in which a listing may hand out the entries of a set
Orders(ps) ==
  {q \in [1..Cardinality(ps) -> ps] :
     \A i, j \in 1..Cardinality(ps) : i # j => q[i] # q[j]}

\* Path(path).rglob('*' + ext) for the extensions of a tuple
rglob(t, exts) == {e \in t : \E x \in exts : EndsWith(PathName(e.path), x)}

\* ---- move_trailers_to_folder
\* the name matches '*' + pattern.strip('*') + '*' + ext
is_trailer(nm) ==
  LET trailer_patterns ==
        << <<"T","r","a","i","l","e","r">>, <<"t","r","a","i","l","e","r">>,
           <<"T","R","A","I","L","E","R">>, <<"T","e","a","s","e","r">>, <<"t","e","a","s","e","r">> >>
  IN  \E k \in 1..Len(trailer_patterns), x \in video_extensions :
        EndsWith(nm, x) /\ Contains(SubSeq(nm, 1, Len(nm) - Len(x)), trailer_patterns[k])

trailer_files(t) == {e.path : e \in {f \in t : is_trailer(PathName(f.path))}}

\* the while loop that looks for a free name in _Trailers
RECURSIVE trailer_dest(_, _, _)
trailer_dest(t, nm, counter) ==
  LET dest == IF counter = 0 THEN nm
              ELSE Stem(nm) \o <<"_">> \o Str(counter)
                   \o SubSeq(nm, Len(Stem(nm)) + 1, Len(nm))
  IN  IF Exists(t, <<TrailersFolder, dest>>)
      THEN trailer_dest(t, nm, counter + 1)
      ELSE <<TrailersFolder, dest>>

\* the loop over trailer_files when dry_run is off; a file that is no
\* longer at its path cannot be moved
RECURSIVE move_trailers(_, _, _)
move_trailers(fs, todo, i) ==
  IF i > Len(todo) THEN fs
  ELSE LET dest == trailer_dest(fs.tree, PathName(todo[i]), 0)
           next == IF Exists(fs.tree, todo[i])
                   THEN [tree  |-> Rename(fs.tree, todo[i], dest),
                         stats |-> [fs.stats EXCEPT !.trailers_moved = @ + 1]]
                   ELSE fs
       IN  move_trailers(next, todo, i + 1)

move_trailers_to_folder(fs, cfg, todo) ==
  IF todo = <<>> THEN fs
  ELSE LET made == IF ~cfg.dry_run /\ ~Exists(fs.tree, <<TrailersFolder>>)
                   THEN [tree  |-> fs.tree \cup {Dir(<<TrailersFolder>>)},
                         stats |-> [fs.stats EXCEPT !.folders_created = @ + 1]]
                   ELSE fs
       IN  IF cfg.dry_run THEN made ELSE move_trailers(made, todo, 1)

\* ---- remove_unnecessary_files
\* matches_pattern(name, config.unnecessary_patterns)
matches_pattern(nm) ==
  LET unnecessary_patterns ==
        << <<"s","a","m","p","l","e">>, <<"p","r","o","o","f">>, <<"s","c","r","e","e","n","s">> >>
  IN  \E k \in 1..Len(unnecessary_patterns) : Contains(Lower(nm), unnecessary_patterns[k])

\* os.walk comes to the entry: no directory above it was deleted
walked(p) == \A k \in 1..(Len(p) - 1) : ~matches_pattern(p[k])

\* remove_unnecessary_files without the test of dry_run
remove_unnecessary_files_always(fs, cfg) ==
  LET hit  == {e \in fs.tree : matches_pattern(PathName(e.path)) /\ walked(e.path)}
      gone == {e \in fs.tree : \E h \in hit : e.path = h.path \/ Under(e.path, h.path)}
  IN  [tree  |-> fs.tree \ gone,
       stats |-> [fs.stats EXCEPT
                    !.files_deleted = @ + Cardinality(hit),
                    !.bytes_deleted = @ + TotalSize(gone)]]

remove_unnecessary_files(fs, cfg) ==
  LET hit  == {e \in fs.tree : matches_pattern(PathName(e.path)) /\ walked(e.path)}
      gone == {e \in fs.tree : \E h \in hit : e.path = h.path \/ Under(e.path, h.path)}
  IN  IF cfg.dry_run THEN fs
      ELSE [tree  |-> fs.tree \ gone,
            stats |-> [fs.stats EXCEPT
                         !.files_deleted = @ + Cardinality(hit),
                         !.bytes_deleted = @ + TotalSize(gone)]]

\* ---- process_subtitles
\* the search of the language patterns in the lowercased stem: the text
\* `lang` stands after one of the characters `before`, at the end or with
\* one of the characters `after` behind it
lang_at(s, lang, before, after) ==
  \E i \in 1..Len(s) :
    /\ s[i] \in before
    /\ StartsAt(s, i + 1, lang)
    /\ \/ i + Len(lang) = Len(s)
       \/ i + Len(lang) < Len(s) /\ s[i + Len(lang) + 1] \in after

is_preferred(nm) ==
  LET sub_name_lower == Lower(Stem(nm))
      langs == << <<"e","n","g">>, <<"e","n">>, <<"e","n","g","l","i","s","h">>, <<"s","p","a">>, <<"e","s">>,
                  <<"s","p","a","n","i","s","h">>, <<"f","r","e">>, <<"f","r">>, <<"f","r","e","n","c","h">>,
                  <<"g","e","r">>, <<"d","e">>, <<"g","e","r","m","a","n">> >>
      \* the first three are the preferred languages
      preferred == \E k \in 1..3 :
                     \/ lang_at(sub_name_lower, langs[k], {"."}, {"."})
                     \/ lang_at(sub_name_lower, langs[k], {"_"}, {"_", "."})
      has_lang_tag == \E k \in 1..Len(langs) :
                        lang_at(sub_name_lower, langs[k], {"."}, {".", "_"})
  IN  preferred \/ ~has_lang_tag

process_subtitles(fs, cfg) ==
  LET subtitle_extensions ==
        {<<".","s","r","t">>, <<".","s","u","b">>, <<".","i","d","x">>, <<".","a","s","s">>, <<".","s","s","a">>, <<".","v","t","t">>}
      subtitle_files == rglob(fs.tree, subtitle_extensions)
      unwanted == {e \in subtitle_files :
                     /\ ~(cfg.keep_subtitles /\ is_preferred(PathName(e.path)))
                     /\ ~e.dir}
      deleted  == IF cfg.dry_run THEN {} ELSE unwanted
  IN  [tree  |-> fs.tree \ deleted,
       stats |-> [fs.stats EXCEPT
                    !.subtitles_processed = @ + Cardinality(subtitle_files),
                    !.subtitles_deleted = @ + Cardinality(deleted),
                    !.bytes_deleted = @ + TotalSize(deleted)]]

\* ---- extract_archives
\* `extracted` are the archives 7-Zip unpacks without error and `unpacked`
\* the entries it writes below the library root
extract_archives(fs, cfg, extracted, unpacked) ==
  LET archive_files == rglob(fs.tree, archive_extensions)
      filled == {e \in fs.tree : \A u \in unpacked : u.path # e.path} \cup unpacked
      parts  == {e \in filled :
                   /\ ~e.dir
                   /\ \/ \E x \in archive_extensions : EndsWith(PathName(e.path), x)
                      \/ LET nm == PathName(e.path)   \* '*.r[0-9][0-9]'
                         IN  /\ Len(nm) >= 4
                             /\ SubSeq(nm, Len(nm) - 3, Len(nm) - 2) = <<".","r">>
                             /\ IsDigit(nm[Len(nm) - 1])
                             /\ IsDigit(nm[Len(nm)])}
  IN  IF ~cfg.seven_zip_path \/ archive_files = {} \/ cfg.dry_run THEN fs
      ELSE [tree  |-> filled \ parts,
            stats |-> [fs.stats EXCEPT
                         !.archives_extracted = @ + Cardinality(extracted),
                         !.archives_failed = @ + Cardinality(archive_files \ extracted),
                         !.files_deleted = @ + Cardinality(parts),
                         !.bytes_deleted = @ + TotalSize(parts)]]

\* ---- create_folders_for_loose_files
loose_files(t) ==
  {e.path : e \in {f \in t :
     /\ Len(f.path) = 1
     /\ ~f.dir
     /\ Lower(SubSeq(f.path[1], Len(Stem(f.path[1])) + 1, Len(f.path[1])))
          \in video_extensions}}

\* the loop over loose_files when dry_run is off; a move into a path that
\* is a file fails
RECURSIVE move_loose_files(_, _, _)
move_loose_files(fs, todo, i) ==
  IF i > Len(todo) THEN fs
  ELSE LET file_name   == PathName(todo[i])
           folder_path == <<Stem(file_name)>>
           made == IF ~Exists(fs.tree, folder_path)
                   THEN [tree  |-> fs.tree \cup {Dir(folder_path)},
                         stats |-> [fs.stats EXCEPT !.folders_created = @ + 1]]
                   ELSE fs
           next == IF Dir(folder_path) \in made.tree
                   THEN [tree  |-> Rename(made.tree, todo[i], folder_path \o <<file_name>>),
                         stats |-> [made.stats EXCEPT !.files_moved = @ + 1]]
                   ELSE made
       IN  move_loose_files(next, todo, i + 1)

create_folders_for_loose_files(fs, cfg, todo) ==
  IF cfg.dry_run THEN fs ELSE move_loose_files(fs, todo, 1)

\* ---- clean_folder_names
\* the folders the loop works on, each with the new_name computed for it
named_folders(t, tag_list) ==
  {[folder |-> e.path, new_name |-> clean_name(PathName(e.path), tag_list)] :
     e \in {f \in t : /\ Len(f.path) = 1
                      /\ f.dir
                      /\ PathName(f.path) # TrailersFolder}}

\* rename_folders without the test that nothing exists at the new path
RECURSIVE rename_folders_over(_, _, _)
rename_folders_over(fs, todo, i) ==
  IF i > Len(todo) THEN fs
  ELSE LET folder   == todo[i].folder
           new_path == <<todo[i].new_name>>
           next == IF todo[i].new_name # PathName(folder)
                   THEN [tree  |-> Rename(fs.tree, folder, new_path),
                         stats |-> [fs.stats EXCEPT !.folders_renamed = @ + 1]]
                   ELSE fs
       IN  rename_folders_over(next, todo, i + 1)

\* the loop over the folders when dry_run is off; the root joined with an
\* empty name is the root itself
RECURSIVE rename_folders(_, _, _)
rename_folders(fs, todo, i) ==
  IF i > Len(todo) THEN fs
  ELSE LET folder   == todo[i].folder
           new_path == IF todo[i].new_name = <<>> THEN <<>>
                       ELSE <<todo[i].new_name>>
           next == IF todo[i].new_name # PathName(folder) /\ ~Exists(fs.tree, new_path)
                   THEN [tree  |-> Rename(fs.tree, folder, new_path),
                         stats |-> [fs.stats EXCEPT !.folders_renamed = @ + 1]]
                   ELSE fs
       IN  rename_folders(next, todo, i + 1)

clean_folder_names(fs, cfg, todo) ==
  IF cfg.dry_run THEN fs ELSE rename_folders(fs, todo, 1)

\* ---- organize_seasons
\* the files the loop works on, each with the season parsed from its name
video_files(t) ==
  {[file |-> e.path, season |-> get_episode_info(PathName(e.path)).season] :
     e \in rglob(t, video_extensions)}

\* the loop over video_files when dry_run is off; a file that is no longer
\* at its path cannot be moved; the library folder itself is taken not to
\* bear the name of a season folder
RECURSIVE move_episodes(_, _, _)
move_episodes(fs, todo, i) ==
  IF i > Len(todo) THEN fs
  ELSE LET file        == todo[i].file
           season      == todo[i].season
           \* f"Season {season:02d}"
           folder      == <<"S","e","a","s","o","n"," ">> \o (IF season < 10 THEN <<"0">> ELSE <<>>) \o Str(season)
           season_path == <<folder>>
           organized   == Len(file) > 1 /\ file[Len(file) - 1] = folder
           made == IF ~Exists(fs.tree, season_path)
                   THEN [tree  |-> fs.tree \cup {Dir(season_path)},
                         stats |-> [fs.stats EXCEPT !.folders_created = @ + 1]]
                   ELSE fs
           next == IF todo[i].season = NoNumber \/ organized THEN fs
                   ELSE IF Exists(made.tree, file) /\ Dir(season_path) \in made.tree
                   THEN [tree  |-> Rename(made.tree, file, season_path \o <<PathName(file)>>),
                         stats |-> [made.stats EXCEPT !.files_moved = @ + 1]]
                   ELSE made
       IN  move_episodes(next, todo, i + 1)

organize_seasons(fs, cfg, todo) ==
  IF cfg.dry_run THEN fs ELSE move_episodes(fs, todo, 1)

\* remove_empty_folders looking at each folder before the folders in it
\* are removed (a walk from the top down)
remove_empty_folders_top_down(fs, cfg) ==
  LET empty == {e \in fs.tree :
                  e.dir /\ \A f \in fs.tree : ~Under(f.path, e.path)}
  IN  IF cfg.dry_run THEN fs
      ELSE [tree  |-> fs.tree \ empty,
            stats |-> [fs.stats EXCEPT
                         !.empty_folders_removed = @ + Cardinality(empty)]]

\* ---- remove_empty_folders
\* the walk from the bottom up removes a folder once the folders in it are
\* removed: the folders with no file below them go
remove_empty_folders(fs, cfg) ==
  LET empty == {e \in fs.tree :
                  e.dir /\ \A f \in fs.tree : Under(f.path, e.path) => f.dir}
  IN  IF cfg.dry_run THEN fs
      ELSE [tree  |-> fs.tree \ empty,
            stats |-> [fs.stats EXCEPT
                         !.empty_folders_removed = @ + Cardinality(empty)]]

(***************************************************************************)
(* The driver: a name is put together from tokens joined by dots, or       *)
(* taken whole from the examples, and handed to the function.              *)
(***************************************************************************)
Join(s, n, tok) == IF n = 0 THEN tok ELSE s \o <<".">> \o tok

InitNames(examples) ==
  /\ \/ pc = "build" /\ name = <<>>
     \/ pc = "ready" /\ name \in examples
  /\ ntok = 0
  /\ quality = NoResult
  /\ title_info = NoResult
  /\ title_again = NoResult
  /\ info = NoResult
  /\ listing = <<>>
  /\ duplicates = NoResult
  /\ report = NoResult
  /\ tags = ConfigTags
  /\ new_name = NoResult
  /\ RunIdle

BuildName(tokens, max) ==
  /\ pc = "build"
  /\ ntok < max
  /\ \E tok \in tokens : name' = Join(name, ntok, tok)
  /\ ntok' = ntok + 1
  /\ UNCHANGED <<pc, quality, title_info, title_again, info,
                 listing, duplicates, report>>
  /\ UNCHANGED clean_vars
  /\ UNCHANGED run_vars

(***************************************************************************)
(* Scoring                                                                 *)
(***************************************************************************)
\* tokens of release names that bear on scoring (every trigger of the five
\* chains in a usual spelling, 'HDRip', and a plain word)
ScoreTokens ==
  { <<"2","1","6","0","p">>,
    <<"4","K">>,
    <<"U","H","D">>,
    <<"1","0","8","0","p">>,
    <<"7","2","0","p">>,
    <<"4","8","0","p">>,
    <<"D","V","D">>,
    <<"B","l","u","R","a","y">>,
    <<"B","l","u","-","R","a","y">>,
    <<"B","D","R","i","p">>,
    <<"B","R","R","i","p">>,
    <<"W","E","B","-","D","L">>,
    <<"W","E","B","D","L">>,
    <<"W","E","B","R","i","p">>,
    <<"H","D","T","V">>,
    <<"D","V","D","R","i","p">>,
    <<"x","2","6","5">>,
    <<"H","2","6","5">>,
    <<"H",".","2","6","5">>,
    <<"H","E","V","C">>,
    <<"x","2","6","4">>,
    <<"h","2","6","4">>,
    <<"H",".","2","6","4">>,
    <<"A","V","C">>,
    <<"X","v","i","D">>,
    <<"D","i","v","X">>,
    <<"A","t","m","o","s">>,
    <<"T","r","u","e","H","D">>,
    <<"D","T","S","-","H","D">>,
    <<"D","T","S","H","D">>,
    <<"D","T","S">>,
    <<"A","C","3">>,
    <<"D","D","5",".","1">>,
    <<"D","D","5"," ","1">>,
    <<"A","A","C">>,
    <<"H","D","R","1","0","+">>,
    <<"H","D","R","1","0","P","l","u","s">>,
    <<"D","o","l","b","y"," ","V","i","s","i","o","n">>,
    <<"D","o","l","b","y","V","i","s","i","o","n">>,
    <<"D","o","V","i">>,
    <<" ","D","V"," ">>,
    <<"H","D","R","1","0">>,
    <<"H","D","R">>,
    <<"H","D","R","i","p">>,
    <<"M","o","v","i","e">> }

\* "Movie.2160p.BluRay.x265.Atmos.HDR10+"
Example_Score == <<"M","o","v","i","e",".","2","1","6","0","p",".","B","l","u","R","a","y",".","x","2","6","5",".","A","t","m","o","s",".","H","D","R","1","0","+">>

CallQualityScore ==
  /\ pc \in {"build", "ready"}
  /\ pc' = "get_quality_score"
  /\ quality' = get_quality_score(name)
  /\ UNCHANGED <<name, ntok, title_info, title_again, info,
                 listing, duplicates, report>>
  /\ UNCHANGED clean_vars
  /\ UNCHANGED run_vars

NextScore == BuildName(ScoreTokens, MaxScoreTokens) \/ CallQualityScore

SpecScore == InitNames({Example_Score}) /\ [][NextScore]_vars

(***************************************************************************)
(* Title normalisation                                                     *)
(***************************************************************************)
\* words, articles, years and release tags of folder names
TitleTokens ==
  { <<>>,  \* the empty token
    <<"T","h","e">>,
    <<"A">>,
    <<"a","n">>,
    <<"M","a","t","r","i","x">>,
    <<"T","h","e"," ","A"," ","T","e","a","m">>,
    <<"1","9","9","9">>,
    <<"(","2","0","1","0",")">>,
    <<"2","0","0","1">>,
    <<"1","0","8","0","p">>,
    <<"x","2","6","4">> }

\* "The.Matrix.1999.1080p.BluRay.x264"
Example_Matrix == <<"T","h","e",".","M","a","t","r","i","x",".","1","9","9","9",".","1","0","8","0","p",".","B","l","u","R","a","y",".","x","2","6","4">>

\* "Blade.Runner.2049.2017.1080p"
Example_TwoYears == <<"B","l","a","d","e",".","R","u","n","n","e","r",".","2","0","4","9",".","2","0","1","7",".","1","0","8","0","p">>

CallNormalizedTitle ==
  /\ pc \in {"build", "ready"}
  /\ pc' = "get_normalized_title"
  /\ title_info' = get_normalized_title(name)
  /\ UNCHANGED <<name, ntok, quality, title_again, info,
                 listing, duplicates, report>>
  /\ UNCHANGED clean_vars
  /\ UNCHANGED run_vars

\* the normalized title is handed to get_normalized_title once more
CallNormalizedTitleAgain ==
  /\ pc = "get_normalized_title"
  /\ pc' = "get_normalized_title_again"
  /\ title_again' = get_normalized_title(title_info.normalized_title)
  /\ UNCHANGED <<name, ntok, quality, title_info, info,
                 listing, duplicates, report>>
  /\ UNCHANGED clean_vars
  /\ UNCHANGED run_vars

NextTitle ==
  \/ BuildName(TitleTokens, MaxTitleTokens)
  \/ CallNormalizedTitle
  \/ CallNormalizedTitleAgain

\* "The_Spider-Man  Far.from_HOME.mkv"
Example_Separators == <<"T","h","e","_","S","p","i","d","e","r","-","M","a","n"," "," ","F","a","r",".","f","r","o","m","_","H","O","M","E",".","m","k","v">>

SpecTitle ==
  /\ InitNames({Example_Matrix, Example_TwoYears, Example_Separators})
  /\ [][NextTitle]_vars

(***************************************************************************)
(* Episode parsing                                                         *)
(***************************************************************************)
\* parts of episode file names: show words, season markers of the three
\* patterns, an extension
EpisodeTokens ==
  { <<>>,  \* the empty token
    <<"S","h","o","w">>,
    <<"S","0","1","E","0","1">>,
    <<"S","0","1","E","0","1","E","0","2">>,
    <<"S","0","2","E","0","3">>,
    <<"S","0","1","E","0","1","-","E","0","3">>,
    <<"1","x","0","5">>,
    <<"S","e","a","s","o","n"," ","1">>,
    <<"E","p","i","s","o","d","e"," ","2">>,
    <<"m","k","v">> }

\* "Breaking.Bad.S01E01.Pilot.mkv"
Example_Episode == <<"B","r","e","a","k","i","n","g",".","B","a","d",".","S","0","1","E","0","1",".","P","i","l","o","t",".","m","k","v">>

CallEpisodeInfo ==
  /\ pc \in {"build", "ready"}
  /\ pc' = "get_episode_info"
  /\ info' = get_episode_info(name)
  /\ UNCHANGED <<name, ntok, quality, title_info, title_again,
                 listing, duplicates, report>>
  /\ UNCHANGED clean_vars
  /\ UNCHANGED run_vars

NextEpisode == BuildName(EpisodeTokens, MaxEpisodeTokens) \/ CallEpisodeInfo

SpecEpisode == InitNames({Example_Episode}) /\ [][NextEpisode]_vars

(***************************************************************************)
(* Duplicate detection                                                     *)
(***************************************************************************)
\* "Inception.2010.720p.BluRay.x264"
Entry_A == <<"I","n","c","e","p","t","i","o","n",".","2","0","1","0",".","7","2","0","p",".","B","l","u","R","a","y",".","x","2","6","4">>

\* "Inception.2010.1080p.WEB-DL.x264"
Entry_B == <<"I","n","c","e","p","t","i","o","n",".","2","0","1","0",".","1","0","8","0","p",".","W","E","B","-","D","L",".","x","2","6","4">>

\* "Inception.2010.BluRay.720p.AVC": the score of Entry_A, the same key
Entry_T == <<"I","n","c","e","p","t","i","o","n",".","2","0","1","0",".","B","l","u","R","a","y",".","7","2","0","p",".","A","V","C">>

\* "Inception.1080p.x264": no year (the stem is "Inception.1080p")
Entry_N == <<"I","n","c","e","p","t","i","o","n",".","1","0","8","0","p",".","x","2","6","4">>

\* "Inception": no year, no release tag
Entry_P == <<"I","n","c","e","p","t","i","o","n">>

\* "Inception.2010.mkv", a file lying loose in the library
LooseFile == <<"I","n","c","e","p","t","i","o","n",".","2","0","1","0",".","m","k","v">>

\* the entries a library directory may hold: movie folders with and without
\* video files in them, the trailers folder, a loose file
DirEntries ==
  { [name |-> Entry_A, is_dir |-> TRUE, videos |-> {}],
    [name |-> Entry_B, is_dir |-> TRUE, videos |-> {700}],
    [name |-> Entry_T, is_dir |-> TRUE, videos |-> {700, 1400}],
    [name |-> Entry_N, is_dir |-> TRUE, videos |-> {1400}],
    [name |-> Entry_P, is_dir |-> TRUE, videos |-> {}],
    [name |-> Example_Matrix, is_dir |-> TRUE, videos |-> {700}],
    [name |-> TrailersFolder, is_dir |-> TRUE, videos |-> {700}],
    [name |-> LooseFile, is_dir |-> FALSE, videos |-> {}] }

InitDup ==
  /\ pc = "build"
  /\ name = <<>>
  /\ ntok = 0
  /\ quality = NoResult
  /\ title_info = NoResult
  /\ title_again = NoResult
  /\ info = NoResult
  /\ listing = <<>>
  /\ duplicates = NoResult
  /\ report = NoResult
  /\ tags = ConfigTags
  /\ new_name = NoResult
  /\ RunIdle

\* one more entry of the directory; the names of a directory are distinct
ListEntry ==
  /\ pc = "build"
  /\ Len(listing) < MaxEntries
  /\ \E f \in DirEntries :
       /\ \A i \in 1..Len(listing) : listing[i].name # f.name
       /\ listing' = Append(listing, f)
  /\ UNCHANGED <<pc, name, ntok, quality, title_info, title_again, info,
                 duplicates, report>>
  /\ UNCHANGED clean_vars
  /\ UNCHANGED run_vars

CallFindDuplicateMovies ==
  /\ pc = "build"
  /\ pc' = "find_duplicate_movies"
  /\ duplicates' = find_duplicate_movies(listing)
  /\ UNCHANGED <<name, ntok, quality, title_info, title_again, info,
                 listing, report>>
  /\ UNCHANGED clean_vars
  /\ UNCHANGED run_vars

CallShowDuplicateReport ==
  /\ pc = "build"
  /\ pc' = "show_duplicate_report"
  /\ duplicates' = find_duplicate_movies(listing)
  /\ report' = show_duplicate_report(duplicates')
  /\ UNCHANGED <<name, ntok, quality, title_info, title_again, info,
                 listing>>
  /\ UNCHANGED clean_vars
  /\ UNCHANGED run_vars

NextDup == ListEntry \/ CallFindDuplicateMovies \/ CallShowDuplicateReport

SpecDup == InitDup /\ [][NextDup]_vars

(***************************************************************************)
(* Folder-name cleaning                                                    *)
(***************************************************************************)
\* tokens of folder names: a plain word, a name with a run of blanks that
\* ends in a blank and a year, a year, tags in either case, a tag holding
\* another tag, a hyphen
\* the values of config.tags: the default list, or a list of up to MaxTags
\* different tags of a pool, in every order; the pool holds two plain tags,
\* a tag and a tag it holds, and a tag ending in a dot
TagLists ==
  LET TagPool ==
        { <<"1","0","8","0","p">>,
          <<"W","E","B","-","D","L">>,
          <<"D","D","5",".","1">>,
          <<"5",".","1">>,
          <<"1","0","8","0","p",".">> }
  IN  {ConfigTags} \cup
      UNION {{t \in [1..k -> TagPool] : \A i, j \in 1..k : i # j => t[i] # t[j]} :
               k \in 0..MaxTags}

Example_Show == <<"S","h","o","w",".","N","a","m","e",".","S","0","1",".","1","0","8","0","p",".","W","E","B","-","D","L">>

InitClean ==
  /\ \/ pc = "build" /\ name = <<>>
     \/ pc = "ready" /\ name \in {Example_Show,
                                   \* "Movie.1080p.5.1"
                                   <<"M","o","v","i","e",".","1","0","8","0","p",".","5",".","1">>}
  /\ ntok = 0
  /\ quality = NoResult
  /\ title_info = NoResult
  /\ title_again = NoResult
  /\ info = NoResult
  /\ listing = <<>>
  /\ duplicates = NoResult
  /\ report = NoResult
  /\ tags \in TagLists
  /\ new_name = NoResult
  /\ RunIdle

\* tokens of folder names: plain words, one with a run of blanks and a
\* year, a year, tags of Config, and a hyphen
CleanTokens ==
  { <<"M","o","v","i","e">>,
    <<"O","l","d"," "," ","F","i","l","m"," ","1","9","9","9">>,
    <<"2","0","1","0">>,
    <<"1","0","8","0","p">>,
    <<"w","e","b","-","d","l">>,
    <<"D","D","5",".","1">>,
    <<"-">> }

BuildCleanName == BuildName(CleanTokens, MaxCleanTokens)

\* the values new_name takes for a folder called `name`: after the loop
\* over the tags, after the replacement of the dots, after the year is put
\* in parentheses
CallCleanName ==
  /\ pc \in {"build", "ready"}
  /\ name # <<>>
  /\ pc' = "clean_name"
  /\ new_name' = LET tagless == remove_tags(name, tags, 1)
                     spaced  == replace_dots(tagless)
                 IN  [tagless |-> tagless,
                      spaced  |-> spaced,
                      final   |-> format_year(spaced)]
  /\ UNCHANGED <<name, ntok, quality, title_info, title_again, info,
                 listing, duplicates, report, tags>>
  /\ UNCHANGED run_vars

NextClean == BuildCleanName \/ CallCleanName

SpecClean == InitClean /\ [][NextClean]_vars

(***************************************************************************)
(* The routines at work on a library                                       *)
(***************************************************************************)
File(p, size) == [path |-> p, dir |-> FALSE, size |-> size]

\* what a library may hold: a release folder with its video and a trailer,
\* a second release of the same movie with a sample, screenshots and a
\* Spanish subtitle, a folder that bears the cleaned name already and holds
\* nothing but an empty folder, a loose
\* video with an English subtitle, an archive in two parts, a show folder
\* with an episode, a season folder with an episode of that name, and the
\* trailers folder with a trailer of the first release's name
LibraryItems ==
  { {Dir(<<<<"H","e","a","t",".","1","9","9","5",".","1","0","8","0","p",".","B","l","u","R","a","y">>>>),
     File(<<<<"H","e","a","t",".","1","9","9","5",".","1","0","8","0","p",".","B","l","u","R","a","y">>, <<"H","e","a","t",".","1","9","9","5",".","1","0","8","0","p",".","B","l","u","R","a","y",".","m","k","v">>>>, 1400),
     File(<<<<"H","e","a","t",".","1","9","9","5",".","1","0","8","0","p",".","B","l","u","R","a","y">>, <<"H","e","a","t","-","t","r","a","i","l","e","r",".","m","k","v">>>>, 50)},
    {Dir(<<<<"H","e","a","t",".","1","9","9","5",".","7","2","0","p">>>>),
     File(<<<<"H","e","a","t",".","1","9","9","5",".","7","2","0","p">>, <<"H","e","a","t",".","1","9","9","5",".","7","2","0","p",".","a","v","i">>>>, 700),
     File(<<<<"H","e","a","t",".","1","9","9","5",".","7","2","0","p">>, <<"S","a","m","p","l","e",".","a","v","i">>>>, 10),
     Dir(<<<<"H","e","a","t",".","1","9","9","5",".","7","2","0","p">>, <<"S","c","r","e","e","n","s">>>>),
     File(<<<<"H","e","a","t",".","1","9","9","5",".","7","2","0","p">>, <<"S","c","r","e","e","n","s">>, <<"1",".","p","n","g">>>>, 2),
     File(<<<<"H","e","a","t",".","1","9","9","5",".","7","2","0","p">>, <<"H","e","a","t",".","s","p","a",".","s","r","t">>>>, 1)},
    {Dir(<<<<"H","e","a","t"," ","(","1","9","9","5",")">>>>),
     Dir(<<<<"H","e","a","t"," ","(","1","9","9","5",")">>, <<"E","x","t","r","a","s">>>>)},
    {File(<<<<"A","l","i","e","n",".","1","9","7","9",".","m","k","v">>>>, 700),
     File(<<<<"A","l","i","e","n",".","1","9","7","9",".","e","n","g",".","s","r","t">>>>, 1)},
    {File(<<<<"E","x","t","r","a","s",".","r","a","r">>>>, 5),
     File(<<<<"E","x","t","r","a","s",".","r","0","0">>>>, 5)},
    {Dir(<<<<"S","h","o","w">>>>),
     File(<<<<"S","h","o","w">>, <<"S","h","o","w",".","S","0","1","E","0","2",".","m","k","v">>>>, 300)},
    {Dir(<<<<"S","e","a","s","o","n"," ","0","1">>>>),
     File(<<<<"S","e","a","s","o","n"," ","0","1">>, <<"S","h","o","w",".","S","0","1","E","0","2",".","m","k","v">>>>, 200)},
    {Dir(<<TrailersFolder>>),
     File(<<TrailersFolder, <<"H","e","a","t","-","t","r","a","i","l","e","r",".","m","k","v">>>>, 40)} }

\* Steps with the duplicate report before the cleaning of the folder names
Steps_report_first ==
  [process_movies   |-> <<"move_trailers_to_folder", "remove_unnecessary_files",
                          "process_subtitles", "extract_archives",
                          "create_folders_for_loose_files", "show_duplicate_report",
                          "clean_folder_names">>,
   process_tv_shows |-> <<"extract_archives", "remove_unnecessary_files",
                          "process_subtitles", "organize_seasons",
                          "remove_empty_folders">>]

\* the functions process_movies and process_tv_shows call, in order
Steps ==
  [process_movies   |-> <<"move_trailers_to_folder", "remove_unnecessary_files",
                          "process_subtitles", "extract_archives",
                          "create_folders_for_loose_files", "clean_folder_names",
                          "show_duplicate_report">>,
   process_tv_shows |-> <<"extract_archives", "remove_unnecessary_files",
                          "process_subtitles", "organize_seasons",
                          "remove_empty_folders">>]

\* the routine is about to call the function
AtStep(function) == pc \in DOMAIN Steps /\ Steps[pc][step] = function

InitRun ==
  /\ pc = "main"
  /\ name = <<>>
  /\ ntok = 0
  /\ quality = NoResult
  /\ title_info = NoResult
  /\ title_again = NoResult
  /\ info = NoResult
  /\ listing = <<>>
  /\ duplicates = NoResult
  /\ report = NoResult
  /\ tags = ConfigTags
  /\ new_name = NoResult
  /\ \E items \in SUBSET LibraryItems :
       Cardinality(items) <= MaxItems /\ tree = UNION items
  /\ \E found \in BOOLEAN :
       config = [DefaultConfig EXCEPT !.seven_zip_path = found]
  /\ stats = ZeroStats
  /\ step = 0

\* main: the arguments are written to config and the routine is called
Main ==
  /\ pc = "main"
  /\ \E dry_run, no_subtitles, no_trailers, no_organize_seasons,
        check_duplicates \in BOOLEAN :
       config' = [config EXCEPT !.dry_run = dry_run,
                                !.keep_subtitles = ~no_subtitles,
                                !.keep_trailers = ~no_trailers,
                                !.organize_seasons = ~no_organize_seasons,
                                !.check_duplicates = check_duplicates]
  /\ pc' \in DOMAIN Steps
  /\ step' = 1
  /\ UNCHANGED <<tree, stats>>
  /\ UNCHANGED <<name, ntok, quality, title_info, title_again, info,
                 listing, duplicates, report, clean_vars>>

\* the call leaves the library and the counters as `fs` says
Returns(fs) ==
  /\ tree' = fs.tree
  /\ stats' = fs.stats
  /\ IF step = Len(Steps[pc]) THEN pc' = "done" /\ step' = 0
     ELSE pc' = pc /\ step' = step + 1
  /\ UNCHANGED config
  /\ UNCHANGED <<name, ntok, quality, title_info, title_again, info,
                 listing, duplicates, report, clean_vars>>

Library == [tree |-> tree, stats |-> stats]

MoveTrailersToFolder ==
  /\ AtStep("move_trailers_to_folder")
  /\ IF config.keep_trailers
     THEN \E todo \in Orders(trailer_files(tree)) :
            Returns(move_trailers_to_folder(Library, config, todo))
     ELSE Returns(Library)

RemoveUnnecessaryFiles ==
  /\ AtStep("remove_unnecessary_files")
  /\ Returns(remove_unnecessary_files(Library, config))

ProcessSubtitles ==
  /\ AtStep("process_subtitles")
  /\ Returns(process_subtitles(Library, config))

ExtractArchives ==
  /\ AtStep("extract_archives")
  /\ \E extracted \in SUBSET rglob(tree, archive_extensions) :
       \* 7-Zip may unpack "Extras.mkv" into the library root
       \E unpacked \in SUBSET {File(<<<<"E","x","t","r","a","s",".","m","k","v">>>>, 100)} :
         /\ extracted = {} => unpacked = {}
         /\ Returns(extract_archives(Library, config, extracted, unpacked))

CreateFoldersForLooseFiles ==
  /\ AtStep("create_folders_for_loose_files")
  /\ \E todo \in Orders(loose_files(tree)) :
       Returns(create_folders_for_loose_files(Library, config, todo))

CleanFolderNames ==
  /\ AtStep("clean_folder_names")
  /\ \E todo \in Orders(named_folders(tree, tags)) :
       Returns(clean_folder_names(Library, config, todo))

OrganizeSeasons ==
  /\ AtStep("organize_seasons")
  /\ IF config.organize_seasons
     THEN \E todo \in Orders(video_files(tree)) :
            Returns(organize_seasons(Library, config, todo))
     ELSE Returns(Library)

RemoveEmptyFolders ==
  /\ AtStep("remove_empty_folders")
  /\ Returns(remove_empty_folders(Library, config))

\* root_path.iterdir(), with the video files each entry holds directly
iterdir(t) ==
  {[name   |-> e.path[1],
    is_dir |-> e.dir,
    videos |-> {f.size : f \in {g \in t :
                  /\ ~g.dir
                  /\ Len(g.path) = 2
                  /\ g.path[1] = e.path[1]
                  /\ Lower(SubSeq(g.path[2], Len(Stem(g.path[2])) + 1,
                                  Len(g.path[2]))) \in video_extensions}}] :
     e \in {f \in t : Len(f.path) = 1}}

\* the last step of process_movies: the report is made of the library as
\* the steps before have left it, and changes nothing in it
ShowDuplicateReport ==
  /\ AtStep("show_duplicate_report")
  /\ IF config.check_duplicates
     THEN \E todo \in Orders(iterdir(tree)) :
            /\ duplicates' = find_duplicate_movies(todo)
            /\ report' = show_duplicate_report(find_duplicate_movies(todo))
     ELSE UNCHANGED <<duplicates, report>>
  /\ pc' = "done"
  /\ step' = 0
  /\ UNCHANGED <<tree, stats, config>>
  /\ UNCHANGED <<name, ntok, quality, title_info, title_again, info,
                 listing, clean_vars>>

NextRun ==
  \/ Main
  \/ MoveTrailersToFolder
  \/ RemoveUnnecessaryFiles
  \/ ProcessSubtitles
  \/ ExtractArchives
  \/ CreateFoldersForLooseFiles
  \/ CleanFolderNames
  \/ OrganizeSeasons
  \/ RemoveEmptyFolders
  \/ ShowDuplicateReport

SpecRun == InitRun /\ [][NextRun]_vars

(***************************************************************************)
(* The three parsers called in any order while the options change          *)
(***************************************************************************)
MaxCoreTokens == 2

\* tokens of names that all three parsers have something to say about
CoreTokens ==
  { <<"S","h","o","w">>,
    <<"S","0","1","E","0","2",".","m","k","v">>,
    <<"2","0","1","0">>,
    <<"1","0","8","0","p">>,
    <<"H","D","R">> }

BuildCoreName == BuildName(CoreTokens, MaxCoreTokens)

\* main: the arguments are written to the module-level config
SetOptions ==
  /\ pc # "main"
  /\ \E dry_run, no_subtitles, no_trailers, no_organize_seasons \in BOOLEAN :
       config' = [config EXCEPT !.dry_run = dry_run,
                                !.keep_subtitles = ~no_subtitles,
                                !.keep_trailers = ~no_trailers,
                                !.organize_seasons = ~no_organize_seasons]
  /\ pc' = "ready"
  /\ UNCHANGED <<tree, stats, step>>
  /\ UNCHANGED <<name, ntok, quality, title_info, title_again, info,
                 listing, duplicates, report, clean_vars>>

\* the calls below may come at any time and any number of times
GetQualityScore ==
  /\ pc # "main"
  /\ pc' = "get_quality_score"
  /\ quality' = get_quality_score(name)
  /\ UNCHANGED <<name, ntok, title_info, title_again, info,
                 listing, duplicates, report>>
  /\ UNCHANGED clean_vars
  /\ UNCHANGED run_vars

GetNormalizedTitle ==
  /\ pc # "main"
  /\ pc' = "get_normalized_title"
  /\ title_info' = get_normalized_title(name)
  /\ UNCHANGED <<name, ntok, quality, title_again, info,
                 listing, duplicates, report>>
  /\ UNCHANGED clean_vars
  /\ UNCHANGED run_vars

GetEpisodeInfo ==
  /\ pc # "main"
  /\ pc' = "get_episode_info"
  /\ info' = get_episode_info(name)
  /\ UNCHANGED <<name, ntok, quality, title_info, title_again,
                 listing, duplicates, report>>
  /\ UNCHANGED clean_vars
  /\ UNCHANGED run_vars

NextCore ==
  \/ BuildCoreName
  \/ SetOptions
  \/ GetQualityScore
  \/ GetNormalizedTitle
  \/ GetEpisodeInfo

SpecCore == InitNames({}) /\ [][NextCore]_vars

(***************************************************************************)
(* Claims                                                                  *)
(***************************************************************************)
\* The scoring table of the specification: per category, the tiers from
\* highest to lowest, each with its trigger substrings and its points.
TierTable ==
  <<<< \* Resolution
       [triggers |-> {<<"2","1","6","0","p">>, <<"4","k">>, <<"u","h","d">>}, points |-> 100],
       [triggers |-> {<<"1","0","8","0","p">>}, points |-> 80],
       [triggers |-> {<<"7","2","0","p">>}, points |-> 60],
       [triggers |-> {<<"4","8","0","p">>, <<"d","v","d">>}, points |-> 40]
    >>,
    << \* Source
       [triggers |-> {<<"b","l","u","r","a","y">>, <<"b","l","u","-","r","a","y">>, <<"b","d","r","i","p">>, <<"b","r","r","i","p">>}, points |-> 30],
       [triggers |-> {<<"w","e","b","-","d","l">>, <<"w","e","b","d","l">>}, points |-> 25],
       [triggers |-> {<<"w","e","b","r","i","p">>}, points |-> 20],
       [triggers |-> {<<"h","d","t","v">>}, points |-> 15],
       [triggers |-> {<<"d","v","d","r","i","p">>}, points |-> 10]
    >>,
    << \* Codec
       [triggers |-> {<<"x","2","6","5">>, <<"h","2","6","5">>, <<"h",".","2","6","5">>, <<"h","e","v","c">>}, points |-> 20],
       [triggers |-> {<<"x","2","6","4">>, <<"h","2","6","4">>, <<"h",".","2","6","4">>, <<"a","v","c">>}, points |-> 15],
       [triggers |-> {<<"x","v","i","d">>, <<"d","i","v","x">>}, points |-> 5]
    >>,
    << \* Audio
       [triggers |-> {<<"a","t","m","o","s">>}, points |-> 15],
       [triggers |-> {<<"t","r","u","e","h","d">>}, points |-> 12],
       [triggers |-> {<<"d","t","s","-","h","d">>, <<"d","t","s","h","d">>}, points |-> 10],
       [triggers |-> {<<"d","t","s">>}, points |-> 8],
       [triggers |-> {<<"a","c","3">>, <<"d","d","5",".","1">>, <<"d","d","5"," ","1">>}, points |-> 5],
       [triggers |-> {<<"a","a","c">>}, points |-> 3]
    >>,
    << \* HDR
       [triggers |-> {<<"h","d","r","1","0","+">>, <<"h","d","r","1","0","p","l","u","s">>}, points |-> 15],
       [triggers |-> {<<"d","o","l","b","y"," ","v","i","s","i","o","n">>, <<"d","o","l","b","y","v","i","s","i","o","n">>, <<"d","o","v","i">>, <<" ","d","v"," ">>}, points |-> 15],
       [triggers |-> {<<"h","d","r","1","0">>}, points |-> 12],
       [triggers |-> {<<"h","d","r">>}, points |-> 10]
    >> >>

RECURSIVE FirstTierPoints(_, _, _)
FirstTierPoints(tiers, k, lower) ==
  IF k > Len(tiers) THEN 0
  ELSE IF \E t \in tiers[k].triggers : Contains(lower, t) THEN tiers[k].points
  ELSE FirstTierPoints(tiers, k + 1, lower)

CategoryPoints(c, lower) == FirstTierPoints(TierTable[c], 1, lower)

TablePoints(lower) ==
  CategoryPoints(1, lower) + CategoryPoints(2, lower) + CategoryPoints(3, lower)
    + CategoryPoints(4, lower) + CategoryPoints(5, lower)

\* C1: the score of every name is the sum over the five categories of the
\* points of the first listed tier one of whose triggers occurs in the name
\* (case-insensitively), 0 for a category with none; the example name
\* "Movie.2160p.BluRay.x265.Atmos.HDR10+" scores 180 with hdr true.
C1_ScoreIsSumOfFirstTiers ==
  pc = "get_quality_score" =>
    /\ quality.score = TablePoints(Lower(name))
    /\ name = Example_Score => quality.score = 180 /\ quality.hdr = TRUE

\* the example has been scored: all five categories award points, and in the
\* HDR category the triggers of three tiers occur in the name
C1_Witness ==
  /\ pc = "get_quality_score"
  /\ name = Example_Score
  /\ quality.score = 100 + 30 + 20 + 15 + 15

(***************************************************************************)
(* Duplicate groups                                                        *)
(***************************************************************************)
Called(fs) == pc \in fs

\* the names of the movie folders, in listing order
RECURSIVE FolderNamesFrom(_, _)
FolderNamesFrom(dir, i) ==
  IF i > Len(dir) THEN <<>>
  ELSE (IF dir[i].is_dir /\ dir[i].name # TrailersFolder
        THEN <<dir[i].name>> ELSE <<>>) \o FolderNamesFrom(dir, i + 1)

\* the TitleKey of a name: the pair (normalized title, year)
TitleKey(n) ==
  LET ti == get_normalized_title(n) IN <<ti.normalized_title, ti.year>>

RECURSIVE TitleKeysFrom(_, _)
TitleKeysFrom(names, i) ==
  IF i > Len(names) THEN <<>>
  ELSE <<TitleKey(names[i])>> \o TitleKeysFrom(names, i + 1)

\* the names whose key is k, in input order
RECURSIVE Bucket(_, _, _, _)
Bucket(names, keys, k, i) ==
  IF i > Len(names) THEN <<>>
  ELSE (IF keys[i] = k THEN <<names[i]>> ELSE <<>>)
       \o Bucket(names, keys, k, i + 1)

\* the buckets of 2 or more names
SharedBuckets(names, keys) ==
  {b \in {Bucket(names, keys, keys[i], 1) : i \in 1..Len(names)} : Len(b) >= 2}

RECURSIVE GroupNamesFrom(_, _)
GroupNamesFrom(group, i) ==
  IF i > Len(group) THEN <<>>
  ELSE <<group[i].original_name>> \o GroupNamesFrom(group, i + 1)

GroupNames(group) == GroupNamesFrom(group, 1)

InSeq(x, sq) == \E i \in 1..Len(sq) : sq[i] = x

PositionIn(sq, x) == CHOOSE i \in 1..Len(sq) : sq[i] = x

\* "inception" and "2010"
Title_Inception == <<"i","n","c","e","p","t","i","o","n">>

Year_2010 == <<"2","0","1","0">>

GroupsAreSharedBuckets(names, keys) ==
  /\ {GroupNames(duplicates[g]) : g \in 1..Len(duplicates)}
       = SharedBuckets(names, keys)
  /\ Len(duplicates) = Cardinality(SharedBuckets(names, keys))
  /\ InSeq(Entry_A, names) /\ InSeq(Entry_B, names) =>
       \E g \in 1..Len(duplicates) :
         /\ InSeq(Entry_A, GroupNames(duplicates[g]))
         /\ InSeq(Entry_B, GroupNames(duplicates[g]))
         /\ \A i \in 1..Len(duplicates[g]) :
              keys[PositionIn(names, duplicates[g][i].original_name)]
                = <<Title_Inception, Year_2010>>

\* C2: the groups returned are exactly the buckets of 2 or more folders with
\* one title key, one group per such key and none for a key of one folder;
\* a bucket lists its folders in input order, so no folder is in two groups;
\* the two Inception entries of the example share a group whose key is
\* ("inception", "2010").
C2_OneGroupPerSharedKey ==
  Called({"find_duplicate_movies", "show_duplicate_report"}) =>
    GroupsAreSharedBuckets(FolderNamesFrom(listing, 1),
                           TitleKeysFrom(FolderNamesFrom(listing, 1), 1))

\* four folders make two groups, and the first has the two example entries
C2_Witness ==
  /\ pc = "find_duplicate_movies"
  /\ Len(duplicates) = 2
  /\ InSeq(Entry_A, GroupNames(duplicates[1]))
  /\ InSeq(Entry_B, GroupNames(duplicates[1]))

RankedByScoreOnly(lines, group) ==
  LET names == GroupNames(group)
  IN  /\ Len(lines) = Len(group)
      /\ \A i \in 1..Len(lines) :
           /\ InSeq(lines[i].original_name, names)
           /\ lines[i].score
                = group[PositionIn(names, lines[i].original_name)].quality.score
           /\ lines[i].mark = (IF i = 1 THEN "KEEP" ELSE "DEL?")
      /\ \A i, j \in 1..Len(lines) :
           i < j =>
             /\ lines[i].original_name # lines[j].original_name
             /\ lines[i].score >= lines[j].score
             /\ lines[i].score = lines[j].score =>
                  PositionIn(names, lines[i].original_name)
                    < PositionIn(names, lines[j].original_name)

\* the entries of the group, each with file size 0
WithoutSizes(group) ==
  [i \in 1..Len(group) |-> [group[i] EXCEPT !.file_size = 0]]

\* C3: the lines of every group of the report are the entries of the group
\* in descending order of score, entries of equal score in their order of
\* insertion, whatever their file sizes; the first line is marked KEEP.
C3_RankedByScoreStable ==
  pc = "show_duplicate_report" =>
    /\ Len(report) = Len(duplicates)
    /\ \A g \in 1..Len(report) :
         /\ RankedByScoreOnly(report[g], duplicates[g])
         /\ GroupNames(report[g])
              = GroupNames(report_group(WithoutSizes(duplicates[g])))

\* a group whose KEEP line is a folder without video file, ranked before a
\* folder of the same score that holds video files
C3_Witness ==
  /\ pc = "show_duplicate_report"
  /\ \E g \in 1..Len(report) :
       /\ Len(report[g]) >= 2
       /\ report[g][1].file_size = 0
       /\ report[g][2].file_size > 0
       /\ report[g][1].score = report[g][2].score

\* the results of get_normalized_title for the names, in order
RECURSIVE TitleInfosFrom(_, _)
TitleInfosFrom(names, i) ==
  IF i > Len(names) THEN <<>>
  ELSE <<get_normalized_title(names[i])>> \o TitleInfosFrom(names, i + 1)

KeysSeparateYears(names, infos) ==
  /\ \A i, j \in 1..Len(names) :
       movie_key(infos[i]) = movie_key(infos[j]) =>
         /\ infos[i].normalized_title = infos[j].normalized_title
         /\ infos[i].year = infos[j].year
  /\ \A g \in 1..Len(duplicates) :
       \A i, j \in 1..Len(duplicates[g]) :
         /\ duplicates[g][i].year = duplicates[g][j].year
         /\ infos[PositionIn(names, duplicates[g][i].original_name)].normalized_title
              = infos[PositionIn(names, duplicates[g][j].original_name)].normalized_title

\* C7: two folders have the same grouping key only if their normalized
\* titles are equal and their years are equal or both absent; no group holds
\* an entry with a year together with an entry without one.
C7_KeySeparatesYears ==
  Called({"find_duplicate_movies", "show_duplicate_report"}) =>
    KeysSeparateYears(FolderNamesFrom(listing, 1),
                      TitleInfosFrom(FolderNamesFrom(listing, 1), 1))

\* folders of one title with and without a year, in two groups
C7_Witness ==
  /\ pc = "find_duplicate_movies"
  /\ Len(duplicates) = 2
  /\ duplicates[1][1].year = Year_2010
  /\ duplicates[2][1].year = None
  /\ TitleKey(duplicates[1][1].original_name)[1]
       = TitleKey(duplicates[2][1].original_name)[1]

(***************************************************************************)
(* Normalized titles                                                       *)
(***************************************************************************)
TitleCalled == pc \in {"get_normalized_title", "get_normalized_title_again"}

\* a 4-digit token 19xx or 20xx starts at position i
YearTokenAt(s, i) ==
  /\ 1 <= i /\ i + 3 <= Len(s)
  /\ <<s[i], s[i + 1]>> \in {<<"1","9">>, <<"2","0">>}
  /\ IsDigit(s[i + 2]) /\ IsDigit(s[i + 3])

YearTokens(s) == {i \in 1..Len(s) : YearTokenAt(s, i)}

\* the text before position p, without the bracket that opens at p - 1
TextBefore(s, p) ==
  IF p > 1 /\ s[p - 1] \in {"(", "["} THEN SubSeq(s, 1, p - 2)
  ELSE SubSeq(s, 1, p - 1)

\* the title made of a text that holds no year
TitleOf(text) == StripArticle(NormalizeTitle(TagCut(text, TitleTags)))

FirstYearDecides(st) ==
  YearTokens(st) # {} =>
    /\ title_info.year = SubSeq(st, Min(YearTokens(st)), Min(YearTokens(st)) + 3)
    /\ title_info.normalized_title = TitleOf(TextBefore(st, Min(YearTokens(st))))

\* "matrix" and "1999"
Title_Matrix == <<"m","a","t","r","i","x">>

Year_1999 == <<"1","9","9","9">>

\* C4: when the stem of the name holds a token 19xx or 20xx, the year is the
\* first such token and the normalized title is the title of the text before
\* it; "The.Matrix.1999.1080p.BluRay.x264" gives "matrix" and "1999".
C4_FirstYearSplitsTitle ==
  TitleCalled =>
    /\ FirstYearDecides(Stem(name))
    /\ name = Example_Matrix =>
         /\ title_info.normalized_title = Title_Matrix
         /\ title_info.year = Year_1999

\* a stem with two different years and words before the first
C4_Witness ==
  /\ pc = "get_normalized_title"
  /\ Cardinality(YearTokens(Stem(name))) = 2
  /\ title_info.year # SubSeq(Stem(name), Max(YearTokens(Stem(name))),
                              Max(YearTokens(Stem(name))) + 3)
  /\ title_info.normalized_title # <<>>

\* C5, as the specification states it: the normalized title of the
\* normalized title of a name is that normalized title.
C5_Idempotent ==
  pc = "get_normalized_title_again" =>
    title_again.normalized_title = title_info.normalized_title

\* the title begins with an article (the, a, an) followed by whitespace
BeginsWithArticle(t) ==
  \E a \in Articles :
    /\ StartsAt(t, 1, a)
    /\ Len(t) > Len(a)
    /\ IsSpace(t[Len(a) + 1])

\* C5, amended: the normalized title of a normalized title t is t whenever t
\* does not itself begin with an article (the, a, an) followed by
\* whitespace.
C5_IdempotentWithoutArticle ==
  pc = "get_normalized_title_again" /\ ~BeginsWithArticle(title_info.normalized_title)
    => title_again.normalized_title = title_info.normalized_title

\* a title that lost its article, year and tags, and is its own title
C5_Witness ==
  /\ pc = "get_normalized_title_again"
  /\ name = Example_Matrix
  /\ ~BeginsWithArticle(title_info.normalized_title)
  /\ title_again.normalized_title = Title_Matrix

\* C6, as the specification states it: the normalized title of a non-empty
\* name is non-empty, and that of the empty name is empty.
C6_NonEmptyTitle ==
  TitleCalled => (title_info.normalized_title = <<>> <=> name = <<>>)

\* the stem begins with a character that is no separator and at which
\* neither a year (bare or in brackets) nor a release tag starts
BeginsWithTitleText(st) ==
  /\ st # <<>>
  /\ ~IsSep(st[1])
  /\ ~YearTokenAt(st, 1)
  /\ ~(st[1] \in {"(", "["} /\ YearTokenAt(st, 2))
  /\ ~\E t \in TitleTags : StartsAt(Lower(st), 1, t)

\* C6, amended: the normalized title of the empty name is empty, and the
\* normalized title is non-empty for every name whose stem begins with a
\* character that is neither a separator (dot, underscore, hyphen,
\* whitespace) nor the start of a year, bare or bracketed, or of a release
\* tag.
C6_NonEmptyTitleOfTitleText ==
  TitleCalled =>
    /\ name = <<>> => title_info.normalized_title = <<>>
    /\ BeginsWithTitleText(Stem(name)) => title_info.normalized_title # <<>>

\* a name of one article alone: nothing is stripped and the title is "a"
C6_Witness ==
  /\ pc = "get_normalized_title"
  /\ name = <<"A">>
  /\ BeginsWithTitleText(Stem(name))
  /\ title_info.normalized_title = <<"a">>

(***************************************************************************)
(* Episode information                                                     *)
(***************************************************************************)
\* ".S01E01." and ".S01E01E02."
Marker_S01E01 == <<".","S","0","1","E","0","1",".">>

Marker_S01E01E02 == <<".","S","0","1","E","0","1","E","0","2",".">>

\* the positions of the name where the text m stands
Occurrences(nm, m) == {i \in 1..Len(nm) : StartsAt(nm, i, m)}

\* S<1 or 2 digits>E<digit> stands at position j, after a separator and at
\* least one character before that
MarkerAt(s, j) ==
  /\ j >= 3
  /\ IsSep(CharAt(s, j - 1))
  /\ CharAt(s, j) \in {"S", "s"}
  /\ \E n \in {1, 2} :
       /\ \A d \in 1..n : IsDigit(CharAt(s, j + d))
       /\ CharAt(s, j + n + 1) \in {"E", "e"}
       /\ IsDigit(CharAt(s, j + n + 2))

\* the text m stands in the name after a non-empty prefix that holds no
\* season and episode marker
FirstMarkerIs(nm, m) ==
  \E i \in Occurrences(nm, m) : i > 1 /\ \A j \in 1..i : ~MarkerAt(nm, j)

\* C8, as the specification states it: a name that matches *.S01E01.* has
\* season 1, episodes [1] and is no multi-episode.
C8_S01E01 ==
  pc = "get_episode_info" /\ Occurrences(name, Marker_S01E01) # {} =>
    /\ info.season = 1
    /\ info.episodes = <<1>>
    /\ info.is_multi_episode = FALSE

\* C8, amended: a name in which ".S01E01." follows a non-empty prefix that
\* holds no earlier season and episode marker has season 1, episodes [1] and
\* is no multi-episode.
C8_FirstMarkerS01E01 ==
  pc = "get_episode_info" /\ FirstMarkerIs(name, Marker_S01E01) =>
    /\ info.season = 1
    /\ info.episodes = <<1>>
    /\ info.is_multi_episode = FALSE

\* the example, "Breaking.Bad.S01E01.Pilot.mkv"
C8_Witness ==
  /\ pc = "get_episode_info"
  /\ name = Example_Episode
  /\ FirstMarkerIs(name, Marker_S01E01)
  /\ info.season = 1
  /\ info.episodes = <<1>>

\* C9, as the specification states it: a name that matches *.S01E01E02.* has
\* episodes [1, 2] and is a multi-episode.
C9_S01E01E02 ==
  pc = "get_episode_info" /\ Occurrences(name, Marker_S01E01E02) # {} =>
    /\ info.episodes = <<1, 2>>
    /\ info.is_multi_episode = TRUE

\* C9, amended: a name in which ".S01E01E02." follows a non-empty prefix
\* that holds no earlier season and episode marker has episodes [1, 2] and
\* is a multi-episode.
C9_FirstMarkerS01E01E02 ==
  pc = "get_episode_info" /\ FirstMarkerIs(name, Marker_S01E01E02) =>
    /\ info.episodes = <<1, 2>>
    /\ info.is_multi_episode = TRUE

\* "Show.S01E01E02.mkv"
C9_Witness ==
  /\ pc = "get_episode_info"
  /\ name = <<"S","h","o","w",".","S","0","1","E","0","1","E","0","2",".","m","k","v">>
  /\ FirstMarkerIs(name, Marker_S01E01E02)
  /\ info.episodes = <<1, 2>>
  /\ info.is_multi_episode = TRUE

\* C10: the list of episodes is non-empty exactly when a season is present,
\* and then its first element is the primary episode.
C10_EpisodesIffSeason ==
  pc = "get_episode_info" =>
    /\ info.episodes # <<>> <=> info.season # NoNumber
    /\ info.season # NoNumber => info.episodes[1] = info.episode

\* a result of the second pattern: a season, and one episode in the list
C10_Witness ==
  /\ pc = "get_episode_info"
  /\ name = <<"S","h","o","w",".","1","x","0","5",".","m","k","v">>
  /\ info.season = 1
  /\ info.episodes = <<5>>

\* the number written by the n digits of s from position i on
RECURSIVE NumberAt(_, _, _)
NumberAt(s, i, n) ==
  IF n = 0 THEN 0
  ELSE 10 * NumberAt(s, i, n - 1)
       + (CHOOSE d \in 0..9 : Digits[d + 1] = s[i + n - 1])

\* n digits stand at position i and c is one of the characters `next`
DigitsThen(s, i, n, next) ==
  /\ \A d \in 0..(n - 1) : IsDigit(CharAt(s, i + d))
  /\ CharAt(s, i + n) \in next

\* the m digits at position i are all that a greedy \d{1,2} takes there
DigitsTaken(s, i, m) ==
  /\ \A d \in 0..(m - 1) : IsDigit(CharAt(s, i + d))
  /\ m = 1 => ~IsDigit(CharAt(s, i + 1))

\* the readings <<position, season, episode>> of the three families in a
\* stem: a family is read at a position that follows a separator and at
\* least one character of title
MarkerStarts(s, first) ==
  {j \in 3..Len(s) : s[j] \in first /\ IsSep(s[j - 1])}

ReadingsSxxExx(s) ==
  {<<j, NumberAt(s, j + 1, n), NumberAt(s, j + n + 2, m)>> :
     <<j, n, m>> \in
       {r \in MarkerStarts(s, {"S", "s"}) \X {1, 2} \X {1, 2} :
          /\ DigitsThen(s, r[1] + 1, r[2], {"E", "e"})
          /\ DigitsTaken(s, r[1] + r[2] + 2, r[3])}}

ReadingsNxNN(s) ==
  {<<j, NumberAt(s, j, n), NumberAt(s, j + n + 1, m)>> :
     <<j, n, m>> \in
       {r \in MarkerStarts(s, {Digits[d] : d \in 1..10}) \X {1, 2} \X {1, 2} :
          /\ DigitsThen(s, r[1], r[2], {"x"})
          /\ DigitsTaken(s, r[1] + r[2] + 1, r[3])}}

\* "season" and "episode"
Word_season == <<"s","e","a","s","o","n">>

Word_episode == <<"e","p","i","s","o","d","e">>

\* Season <n> <separators> Episode <m> read at j: a is where the season
\* digits stand, b where "episode" stands, c where the episode digits stand
SeasonEpisodeAt(s, j, n, m) ==
  LET a == SpaceRunEnd(s, j + 6)
      b == SepRunEnd(s, a + n)
      c == SpaceRunEnd(s, b + 7)
  IN  /\ StartsAt(Lower(Slice(s, j, j + 5)), 1, Word_season)
      /\ DigitsThen(s, a, n, {".", " ", "\t", "_", "-"})
      /\ StartsAt(Lower(Slice(s, b, b + 6)), 1, Word_episode)
      /\ DigitsTaken(s, c, m)

ReadingsSeasonEpisode(s) ==
  {<<j, NumberAt(s, SpaceRunEnd(s, j + 6), n),
        NumberAt(s, SpaceRunEnd(s, SepRunEnd(s, SpaceRunEnd(s, j + 6) + n) + 7), m)>> :
     <<j, n, m>> \in
       {r \in MarkerStarts(s, {"S", "s"}) \X {1, 2} \X {1, 2} :
          SeasonEpisodeAt(s, r[1], r[2], r[3])}}

FirstReading(R) == CHOOSE r \in R : \A q \in R : r[1] <= q[1]

ReadAs(R) ==
  /\ info.season = FirstReading(R)[2]
  /\ info.episode = FirstReading(R)[3]

FirstFamilyDecides(st) ==
  IF ReadingsSxxExx(st) # {} THEN ReadAs(ReadingsSxxExx(st))
  ELSE IF ReadingsNxNN(st) # {} THEN ReadAs(ReadingsNxNN(st))
  ELSE IF ReadingsSeasonEpisode(st) # {} THEN ReadAs(ReadingsSeasonEpisode(st))
  ELSE info.season = NoNumber /\ info.episode = NoNumber

\* C11: the season and episode returned are those of the first family, in
\* the order S<n>E<m>, <n>x<m>, Season <n> Episode <m>, that the stem
\* matches; a later family is read only when every earlier one fails, and
\* without any match season and episode stay None.
C11_FirstFamilyInOrder ==
  pc = "get_episode_info" => FirstFamilyDecides(Stem(name))

\* a stem where 1x05 stands before S02E03: the S<n>E<m> family is read
C11_Witness ==
  /\ pc = "get_episode_info"
  /\ ReadingsSxxExx(Stem(name)) # {}
  /\ ReadingsNxNN(Stem(name)) # {}
  /\ FirstReading(ReadingsNxNN(Stem(name)))[1]
       < FirstReading(ReadingsSxxExx(Stem(name)))[1]
  /\ info.season = 2
  /\ info.episode = 3


(***************************************************************************)
(* Folder-name cleaning: the claims                                        *)
(***************************************************************************)
TrimChars == {" ", ".", "-"}

\* the text without the blanks, dots and hyphens at its two ends
Trimmed(s) ==
  LET solid == {i \in 1..Len(s) : s[i] \notin TrimChars}
  IN  IF solid = {} THEN <<>>
      ELSE [k \in 1..(Max(solid) - Min(solid) + 1) |-> s[Min(solid) + k - 1]]

\* the positions of the text where the tag stands, whatever the case
TagOccurrences(w, tag) == Occurrences(Lower(w), Lower(tag))

\* the working name after one tag was visited
Visit(w, tag) ==
  LET at     == TagOccurrences(w, tag)
      prefix == Trimmed(SubSeq(w, 1, Min(at) - 1))
  IN  IF at # {} /\ prefix # <<>> THEN prefix ELSE w

\* the working name after the tags from the k-th on were visited in order
RECURSIVE VisitFrom(_, _, _)
VisitFrom(w, list, k) ==
  IF k > Len(list) THEN w
  ELSE LET next == Visit(w, list[k])
       IN  IF next = w THEN VisitFrom(w, list, k + 1)
           ELSE VisitFrom(next, list, k + 1)

Tags_1080p_WEBDL == <<<<"1","0","8","0","p">>, <<"W","E","B","-","D","L">>>>

Name_Show_Name_S01 == <<"S","h","o","w"," ","N","a","m","e"," ","S","0","1">>

\* C12: the tags are visited in the configured order; for each tag that
\* occurs in the working name, whatever the case, the text before its first
\* occurrence is trimmed of blanks, dots and hyphens and becomes the working
\* name if it is not empty; with the tags 1080p, WEB-DL the name
\* Show.Name.S01.1080p.WEB-DL is cleaned to "Show Name S01".
C12_TagsVisitedInOrder ==
  pc = "clean_name" =>
    /\ new_name.tagless = VisitFrom(name, tags, 1)
    /\ name = Example_Show /\ tags = Tags_1080p_WEBDL
         => new_name.final = Name_Show_Name_S01

C12_Witness ==
  /\ pc = "clean_name"
  /\ name = Example_Show
  /\ tags = Tags_1080p_WEBDL
  /\ new_name.final = Name_Show_Name_S01

\* the first occurrences of the tags of the list in the name
FirstOccurrences(nm, list) ==
  {Min(TagOccurrences(nm, list[k])) :
     k \in {j \in 1..Len(list) : TagOccurrences(nm, list[j]) # {}}}

\* the trimmed text before the leftmost occurrence of a tag
BeforeLeftmostTag(nm, list) ==
  Trimmed(SubSeq(nm, 1, Min(FirstOccurrences(nm, list)) - 1))

\* the length of the shortest tag that stands at position p
ShortestTagAt(nm, list, p) ==
  Min({Len(list[k]) : k \in {j \in 1..Len(list) : p \in TagOccurrences(nm, list[j])}})

\* a tag first occurs inside the shortest tag at the leftmost position
TagBeginsInsideLeftmost(nm, list) ==
  LET p == Min(FirstOccurrences(nm, list))
  IN  \E q \in FirstOccurrences(nm, list) :
        p < q /\ q < p + ShortestTagAt(nm, list, p)

TagsEndSolid(list) ==
  \A k \in 1..Len(list) :
    list[k] # <<>> /\ list[k][Len(list[k])] \notin TrimChars

\* C13 as stated: for every name and every tag list, the loop leaves the
\* trimmed text before the leftmost occurrence of a tag (the name itself
\* when no tag occurs), whatever the order of the tags.
C13_TruncationAtLeftmostTag ==
  pc = "clean_name" =>
    new_name.tagless = IF FirstOccurrences(name, tags) = {} THEN name
                       ELSE BeforeLeftmostTag(name, tags)

\* C13 amended: when every tag ends in a character other than blank, dot
\* and hyphen, the trimmed text before the leftmost occurrence of a tag is
\* not empty, and no tag first occurs inside the shortest tag standing at
\* that leftmost position, the loop leaves the trimmed text before the
\* leftmost occurrence, whatever the order of the tags; when no tag occurs
\* the name is left as it is.
C13_TruncationAtLeftmostTagUnlessOverlap ==
  pc = "clean_name" =>
    IF FirstOccurrences(name, tags) = {} THEN new_name.tagless = name
    ELSE (/\ TagsEndSolid(tags)
          /\ BeforeLeftmostTag(name, tags) # <<>>
          /\ ~TagBeginsInsideLeftmost(name, tags))
         => new_name.tagless = BeforeLeftmostTag(name, tags)

Tag_1080p == <<"1","0","8","0","p">>

\* two tags occur, the one listed last stands leftmost, and the name is cut
\* there
C13_Witness ==
  /\ pc = "clean_name"
  /\ Len(tags) = 2
  /\ TagsEndSolid(tags)
  /\ TagOccurrences(name, tags[1]) # {}
  /\ TagOccurrences(name, tags[2]) # {}
  /\ Min(TagOccurrences(name, tags[2])) < Min(TagOccurrences(name, tags[1]))
  /\ ~TagBeginsInsideLeftmost(name, tags)
  /\ new_name.tagless = BeforeLeftmostTag(name, tags)
  /\ new_name.tagless # <<>>
  /\ new_name.tagless # name

HasDot(s) == \E i \in 1..Len(s) : s[i] = "."

\* the words of the text, which dots and whitespace keep apart, joined by
\* single blanks
RECURSIVE WordsFrom(_, _, _)
WordsFrom(s, i, gap) ==
  IF i > Len(s) THEN <<>>
  ELSE IF s[i] = "." \/ IsSpace(s[i]) THEN WordsFrom(s, i + 1, TRUE)
  ELSE (IF gap THEN <<" ">> ELSE <<>>) \o <<s[i]>> \o WordsFrom(s, i + 1, FALSE)

SingleSpaced(s) ==
  LET first == {i \in 1..Len(s) : s[i] # "." /\ ~IsSpace(s[i])}
  IN  IF first = {} THEN <<>> ELSE WordsFrom(s, Min(first), FALSE)

\* the text ends in a whitespace character and a bare year
EndsInBareYear(s) ==
  /\ Len(s) >= 5
  /\ IsSpace(s[Len(s) - 4])
  /\ YearTokenAt(s, Len(s) - 3)

\* C14: after the tags are cut, dots become blanks and whitespace is
\* collapsed only if the name holds a dot (a name without a dot keeps its
\* whitespace); then a name ending in whitespace and a bare four-digit year
\* gets that ending rewritten as " (<year>)", and any other name is left
\* as it is.
C14_DotsThenYear ==
  pc = "clean_name" =>
    /\ new_name.spaced = IF HasDot(new_name.tagless)
                          THEN SingleSpaced(new_name.tagless)
                          ELSE new_name.tagless
    /\ new_name.final =
         IF EndsInBareYear(new_name.spaced)
         THEN SubSeq(new_name.spaced, 1, Len(new_name.spaced) - 5)
              \o <<" ", "(">>
              \o SubSeq(new_name.spaced, Len(new_name.spaced) - 3,
                        Len(new_name.spaced))
              \o <<")">>
         ELSE new_name.spaced

Name_Old_Film == <<"O","l","d"," "," ","F","i","l","m"," ","1","9","9","9">>

Name_Old_Film_Year == <<"O","l","d"," "," ","F","i","l","m"," ","(","1","9","9","9",")">>

Name_Movie_Year == <<"M","o","v","i","e"," ","(","2","0","1","0",")">>

\* a name without a dot keeps its run of blanks and gets its year in
\* parentheses
C14_Witness ==
  /\ pc = "clean_name"
  /\ name = Name_Old_Film
  /\ new_name.final = Name_Old_Film_Year

\* a name with dots gets blanks, and the year in parentheses
C14_WitnessDots ==
  /\ pc = "clean_name"
  /\ HasDot(new_name.tagless)
  /\ new_name.spaced # new_name.tagless
  /\ new_name.final = Name_Movie_Year


(***************************************************************************)
(* The routines: the claims                                                *)
(***************************************************************************)
\* the counters of deletions, moves, renames and folder creations
ChangeCounters(s) ==
  <<s.files_deleted, s.bytes_deleted, s.subtitles_deleted,
    s.empty_folders_removed, s.files_moved, s.trailers_moved,
    s.folders_renamed, s.folders_created>>

\* C16: when dry_run is true, no step of process_movies or process_tv_shows
\* creates, deletes, moves or renames anything below the library path: every
\* step leaves the tree as it was, and the deletion, move, rename and
\* folder-creation counters stay 0.
C16_DryRunLeavesLibrary ==
  [][config'.dry_run /\ pc' # "main" =>
       /\ tree' = tree
       /\ ChangeCounters(stats') = <<0, 0, 0, 0, 0, 0, 0, 0>>]_vars

\* a dry run of a routine is over on a library that holds a sample, a
\* subtitle the run looked at, and an empty folder or a trailer
C16_Witness ==
  /\ pc = "done"
  /\ config.dry_run
  /\ stats.subtitles_processed > 0
  /\ \E e \in tree : PathName(e.path) = <<"S","a","m","p","l","e",".","a","v","i">>
  /\ \E e \in tree : e.path \in {<<<<"H","e","a","t"," ","(","1","9","9","5",")">>>>,
                                 <<<<"H","e","a","t",".","1","9","9","5",".","1","0","8","0","p",".","B","l","u","R","a","y">>, <<"H","e","a","t","-","t","r","a","i","l","e","r",".","m","k","v">>>>}

\* the names of the entries in the library root, and of the folders there
RootNames(t) == {e.path[1] : e \in {f \in t : Len(f.path) = 1}}

RootFolders(t) == {e.path[1] : e \in {f \in t : Len(f.path) = 1 /\ f.dir}}

\* the name of a root entry once the folders `renamed` bear the names in
\* `cleaned`, a set of pairs of a folder name and its cleaned name
NameAfter(n, renamed, cleaned) ==
  IF n \in renamed THEN (CHOOSE c \in cleaned : c[1] = n)[2] ELSE n

\* the library after the folders `renamed` got their cleaned names and
\* nothing else happened
TreeAfter(t, renamed, cleaned) ==
  {[e EXCEPT !.path = <<NameAfter(e.path[1], renamed, cleaned)>> \o Tail(e.path)] :
     e \in t}

\* C17: clean_folder_names renames a folder only when dry_run is false and
\* no entry exists at the cleaned name; no folder is replaced or merged
\* into, so of several folders that clean to one name at most one gets it
\* and the others keep their names; folders_renamed grows by one per rename.
C17_RenameOnlyToFreeName ==
  [][AtStep("clean_folder_names") =>
       LET cleaned == {<<n, clean_name(n, tags)>> : n \in RootFolders(tree)}
       IN  \E renamed \in SUBSET RootFolders(tree) :
             /\ renamed # {} => ~config.dry_run
             /\ \A n \in renamed :
                  /\ NameAfter(n, renamed, cleaned) # n
                  /\ NameAfter(n, renamed, cleaned) \notin RootNames(tree)
             /\ \A n, m \in renamed :
                  n # m => NameAfter(n, renamed, cleaned) # NameAfter(m, renamed, cleaned)
             /\ tree' = TreeAfter(tree, renamed, cleaned)
             /\ Cardinality(tree') = Cardinality(tree)
             /\ stats'.folders_renamed = stats.folders_renamed + Cardinality(renamed)]_vars

\* two releases clean to "Heat (1995)": one folder bears that name now, the
\* other one kept its name, and one rename was counted
C17_Witness ==
  /\ pc = "done"
  /\ ~config.dry_run
  /\ stats.folders_renamed = 1
  /\ Dir(<<<<"H","e","a","t"," ","(","1","9","9","5",")">>>>) \in tree
  /\ \/ Dir(<<<<"H","e","a","t",".","1","9","9","5",".","7","2","0","p">>>>) \in tree
     \/ Dir(<<<<"H","e","a","t",".","1","9","9","5",".","1","0","8","0","p",".","B","l","u","R","a","y">>>>) \in tree

\* the name of a trailer file, as the help of --no-trailers means it
IsTrailerName(nm) ==
  \/ Contains(Lower(nm), <<"t","r","a","i","l","e","r">>)
  \/ Contains(Lower(nm), <<"t","e","a","s","e","r">>)

\* C18: with --no-trailers (keep_trailers false) and dry_run off, the movie
\* routine deletes the trailer files instead of moving them to _Trailers:
\* once its trailer step is over no trailer file is left in a movie folder.
C18_NoTrailersDeletesTrailers ==
  (/\ pc = "process_movies"
   /\ step > 1
   /\ ~config.keep_trailers
   /\ ~config.dry_run)
  => /\ stats.trailers_moved = 0
     /\ \A e \in tree :
          ~e.dir /\ IsTrailerName(PathName(e.path)) => e.path[1] = TrailersFolder

(***************************************************************************)
(* C15: the empty string                                                   *)
(***************************************************************************)
\* the variable holds a returned dict and no longer NoResult
IsResult(r) == r # NoResult

\* C15: on the empty string each core function returns its default result:
\* get_episode_info gives no season, no episode, an empty episode list, no
\* titles and is_multi_episode false; get_quality_score gives score 0, every
\* category 'Unknown', hdr false and no details; get_normalized_title gives
\* an empty title and no year.
C15_DefaultsOnEmptyString ==
  name = <<>> =>
    /\ IsResult(info) =>
         /\ info.season = NoNumber
         /\ info.episode = NoNumber
         /\ info.episodes = <<>>
         /\ info.show_title = None
         /\ info.episode_title = None
         /\ info.is_multi_episode = FALSE
    /\ IsResult(quality) =>
         /\ quality.score = 0
         /\ quality.resolution = "Unknown"
         /\ quality.source = "Unknown"
         /\ quality.codec = "Unknown"
         /\ quality.audio = "Unknown"
         /\ quality.hdr = FALSE
         /\ quality.details = <<>>
    /\ IsResult(title_info) =>
         /\ title_info.normalized_title = <<>>
         /\ title_info.year = None

\* the three functions have been called on the empty string
C15_Witness ==
  /\ name = <<>>
  /\ IsResult(info)
  /\ IsResult(quality)
  /\ IsResult(title_info)

(***************************************************************************)
(* C19: the parsers are pure                                               *)
(***************************************************************************)
CoreFunctions ==
  {"get_quality_score", "get_normalized_title", "get_episode_info"}

DeclaredValues ==
  /\ quality.resolution \in {"2160p", "1080p", "720p", "480p", "Unknown"}
  /\ quality.source \in {"BluRay", "WEB-DL", "WEBRip", "HDTV", "DVDRip",
                         "Unknown"}
  /\ quality.audio \in {"Atmos", "TrueHD", "DTS-HD", "DTS", "AC3", "AAC",
                        "Unknown"}

\* C20 as stated: in every result of get_quality_score resolution, source
\* and audio take only their declared values and codec is one of HEVC,
\* x264, XviD, Unknown.
C20_DeclaredCategoryValues ==
  pc = "get_quality_score" =>
    /\ DeclaredValues
    /\ quality.codec \in {"HEVC", "x264", "XviD", "Unknown"}

\* C20 amended: in every result of get_quality_score resolution, source and
\* audio take only their declared values and codec is one of HEVC/x265,
\* x264, XviD, Unknown.
C20_CategoryValuesOfTheCode ==
  pc = "get_quality_score" =>
    /\ DeclaredValues
    /\ quality.codec \in {"HEVC/x265", "x264", "XviD", "Unknown"}

\* a name with an HEVC trigger and a known resolution has been scored
C20_Witness ==
  /\ pc = "get_quality_score"
  /\ quality.codec = "HEVC/x265"
  /\ quality.resolution # "Unknown"

(***************************************************************************)
(* C21: the score breakdown                                                *)
(***************************************************************************)
\* the entries of a score breakdown: the category each belongs to (1
\* Resolution, 2 Source, 3 Codec, 4 Audio, 5 HDR) and the point delta its
\* text names
BreakdownEntries ==
  { [text |-> "4K/2160p (+100)", category |-> 1, delta |-> 100],
    [text |-> "1080p (+80)", category |-> 1, delta |-> 80],
    [text |-> "720p (+60)", category |-> 1, delta |-> 60],
    [text |-> "480p (+40)", category |-> 1, delta |-> 40],
    [text |-> "BluRay (+30)", category |-> 2, delta |-> 30],
    [text |-> "WEB-DL (+25)", category |-> 2, delta |-> 25],
    [text |-> "WEBRip (+20)", category |-> 2, delta |-> 20],
    [text |-> "HDTV (+15)", category |-> 2, delta |-> 15],
    [text |-> "DVDRip (+10)", category |-> 2, delta |-> 10],
    [text |-> "HEVC/x265 (+20)", category |-> 3, delta |-> 20],
    [text |-> "x264 (+15)", category |-> 3, delta |-> 15],
    [text |-> "XviD (+5)", category |-> 3, delta |-> 5],
    [text |-> "Atmos (+15)", category |-> 4, delta |-> 15],
    [text |-> "TrueHD (+12)", category |-> 4, delta |-> 12],
    [text |-> "DTS-HD (+10)", category |-> 4, delta |-> 10],
    [text |-> "DTS (+8)", category |-> 4, delta |-> 8],
    [text |-> "AC3 (+5)", category |-> 4, delta |-> 5],
    [text |-> "AAC (+3)", category |-> 4, delta |-> 3],
    [text |-> "HDR10+ (+15)", category |-> 5, delta |-> 15],
    [text |-> "Dolby Vision (+15)", category |-> 5, delta |-> 15],
    [text |-> "HDR10 (+12)", category |-> 5, delta |-> 12],
    [text |-> "HDR (+10)", category |-> 5, delta |-> 10] }

Entry(text) == CHOOSE e \in BreakdownEntries : e.text = text

RECURSIVE SumOfDeltas(_, _)
SumOfDeltas(details, i) ==
  IF i > Len(details) THEN 0
  ELSE Entry(details[i]).delta + SumOfDeltas(details, i + 1)

\* C21: the score breakdown holds exactly one entry for each category that
\* awarded points and none for a category that awarded 0, the entries stand
\* in the order Resolution, Source, Codec, Audio, HDR, and the point deltas
\* their texts name add up to the score.
C21_BreakdownMatchesScore ==
  pc = "get_quality_score" =>
    LET details == quality.details
    IN  /\ \A i \in 1..Len(details) :
             \E e \in BreakdownEntries : e.text = details[i]
        /\ \A i, j \in 1..Len(details) :
             i < j => Entry(details[i]).category < Entry(details[j]).category
        /\ \A c \in 1..5 :
             (\E i \in 1..Len(details) : Entry(details[i]).category = c)
               <=> CategoryPoints(c, Lower(name)) > 0
        /\ \A i \in 1..Len(details) :
             Entry(details[i]).delta
               = CategoryPoints(Entry(details[i]).category, Lower(name))
        /\ SumOfDeltas(details, 1) = quality.score

\* a name has been scored in which two categories award points and three
\* award none
C21_Witness ==
  /\ pc = "get_quality_score"
  /\ quality.details = <<"BluRay (+30)", "AC3 (+5)">>
  /\ quality.score = 35

(***************************************************************************)
(* C22: the range form                                                     *)
(***************************************************************************)
\* "Show.S01E01-E03"
Stem_Range == <<"S","h","o","w",".","S","0","1","E","0","1","-","E","0","3">>

InEpisodes(n) == \E i \in 1..Len(info.episodes) : info.episodes[i] = n

\* C22: get_episode_info recognises the range form S01E01-E03: for the stem
\* "Show.S01E01-E03" the episodes hold both 1 and 3 and is_multi_episode is
\* true.
C22_RangeFormRecognised ==
  (pc = "get_episode_info" /\ Stem(name) = Stem_Range)
    => /\ InEpisodes(1)
       /\ InEpisodes(3)
       /\ info.is_multi_episode

(***************************************************************************)
(* C23: the show title                                                     *)
(***************************************************************************)
\* the readings of the family that decides the result
DecidingReadings(st) ==
  IF ReadingsSxxExx(st) # {} THEN ReadingsSxxExx(st)
  ELSE IF ReadingsNxNN(st) # {} THEN ReadingsNxNN(st)
  ELSE ReadingsSeasonEpisode(st)

LastReading(R) == CHOOSE r \in R : \A q \in R : r[1] >= q[1]

\* where the run of separators that ends before position j begins
SepRunStart(s, j) == Min({a \in 1..(j - 1) : \A b \in a..(j - 1) : IsSep(s[b])})

\* the stem before the run of separators that precedes the marker at j, and
\* at least its first character
TitleBeforeSeparators(s, j) == SubSeq(s, 1, Max({1, SepRunStart(s, j) - 1}))

\* the stem up to the one separator character before the marker at j
TitleUpToSeparator(s, j) == SubSeq(s, 1, j - 2)

DotsToSpacesTrimmed(s) == Strip(ReplaceBySpace(s, {"."}))

\* C23, as the specification states it: the show title is captured greedily
\* up to the separator before the season marker, so with several markers in
\* the stem it runs up to the last one; dots are then replaced with spaces
\* and the result is trimmed.
C23_TitleUpToLastMarker ==
  (pc = "get_episode_info" /\ DecidingReadings(Stem(name)) # {}) =>
    info.show_title =
      DotsToSpacesTrimmed(
        TitleUpToSeparator(Stem(name),
                           LastReading(DecidingReadings(Stem(name)))[1]))

\* C23, amended: the show title is captured lazily: it is the stem before
\* the run of separators that precedes the first season marker of the family
\* read (at least the first character of the stem), so with several markers
\* in the stem it runs up to the first one; dots are then replaced with
\* spaces and the result is trimmed.
C23_TitleUpToFirstMarker ==
  (pc = "get_episode_info" /\ DecidingReadings(Stem(name)) # {}) =>
    info.show_title =
      DotsToSpacesTrimmed(
        TitleBeforeSeparators(Stem(name),
                              FirstReading(DecidingReadings(Stem(name)))[1]))

\* a stem with two markers of the first family has been parsed
C23_Witness ==
  /\ pc = "get_episode_info"
  /\ name = <<"S","h","o","w",".","S","0","1","E","0","1",".","S","0","2","E","0","3",".","m","k","v">>
  /\ info.show_title = <<"S","h","o","w">>
  /\ info.season = 1

(***************************************************************************)
(* C24: the canonical form of a normalized title                           *)
(***************************************************************************)
Canonical(t) ==
  /\ \A i \in 1..Len(t) :
       /\ t[i] \notin {UpperCase[k] : k \in 1..26}
       /\ t[i] \notin {".", "_", "-"}
  /\ t # <<>> => ~IsSpace(t[1]) /\ ~IsSpace(t[Len(t)])
  /\ \A i \in 1..(Len(t) - 1) : ~(IsSpace(t[i]) /\ IsSpace(t[i + 1]))

\* the title text of the stem, cut at the year and the release tags, before
\* any article is removed from it
NormalizedText(st) == NormalizeTitle(TagCut(YearCut(st), TitleTags))

\* r is t, or t without one leading article and the blank after it
AtMostOneArticleRemoved(t, r) ==
  \/ r = t
  \/ \E a \in Articles : t = a \o <<" ">> \o r

\* "spider man far from home"
Title_SpiderMan == <<"s","p","i","d","e","r"," ","m","a","n"," ","f","a","r"," ","f","r","o","m"," ","h","o","m","e">>

\* C24: every normalized title is in canonical form: it has no uppercase
\* letter, no dot, underscore or hyphen, no leading or trailing whitespace
\* and no run of two or more whitespace characters, and at most one leading
\* article (the, a, an) has been removed from it.
C24_CanonicalTitle ==
  pc = "get_normalized_title" =>
    /\ Canonical(title_info.normalized_title)
    /\ AtMostOneArticleRemoved(NormalizedText(Stem(name)),
                               title_info.normalized_title)

\* a name with an article, an underscore, a hyphen, a run of blanks, a dot
\* and uppercase letters has been normalized
C24_Witness ==
  /\ pc = "get_normalized_title"
  /\ name = Example_Separators
  /\ title_info.normalized_title = Title_SpiderMan

(***************************************************************************)
(* C25: the order of the steps                                             *)
(***************************************************************************)
\* the orders the claim names
OrderOfSteps ==
  [process_movies   |-> <<"move_trailers_to_folder", "remove_unnecessary_files",
                          "process_subtitles", "extract_archives",
                          "create_folders_for_loose_files", "clean_folder_names",
                          "show_duplicate_report">>,
   process_tv_shows |-> <<"extract_archives", "remove_unnecessary_files",
                          "process_subtitles", "organize_seasons",
                          "remove_empty_folders">>]

\* the counters a function writes
CountersOf ==
  [move_trailers_to_folder  |-> {"trailers_moved", "folders_created"},
   remove_unnecessary_files |-> {"files_deleted", "bytes_deleted"},
   process_subtitles        |-> {"subtitles_processed", "subtitles_deleted",
                                 "bytes_deleted"},
   extract_archives         |-> {"archives_extracted", "archives_failed",
                                 "files_deleted", "bytes_deleted"},
   create_folders_for_loose_files |-> {"folders_created", "files_moved"},
   clean_folder_names       |-> {"folders_renamed"},
   show_duplicate_report    |-> {},
   organize_seasons         |-> {"folders_created", "files_moved"},
   remove_empty_folders     |-> {"empty_folders_removed"}]

\* the step a conditional function belongs to is skipped when its option is
\* off
Skipped(function) ==
  \/ function = "move_trailers_to_folder" /\ ~config.keep_trailers
  \/ function = "organize_seasons" /\ ~config.organize_seasons
  \/ function = "show_duplicate_report" /\ ~config.check_duplicates

\* the names of the folders the duplicate groups hold
ScoredNames(groups) ==
  {groups[g][i].original_name : <<g, i>> \in
     {x \in (1..Len(groups)) \X (1..MaxItems + MaxItems + 2) :
        x[2] <= Len(groups[x[1]])}}

\* C25: each routine runs its steps in the one order named, a conditional
\* step doing nothing when its option is off: the k-th step of a routine
\* writes only the counters of the k-th function of its order and leaves the
\* library as it is when it is skipped, and the routine ends after its last
\* step; the duplicate report, the last step of process_movies, scores
\* folders of the library as clean_folder_names, the step before it, has
\* left it.
C25_StepsInFixedOrder ==
  [][(pc \in DOMAIN OrderOfSteps) =>
       (LET function == OrderOfSteps[pc][step]
        IN /\ \A c \in DOMAIN stats :
                stats'[c] # stats[c] => c \in CountersOf[function]
           /\ Skipped(function) => tree' = tree /\ stats' = stats
           /\ IF step = Len(OrderOfSteps[pc])
              THEN pc' = "done"
              ELSE pc' = pc /\ step' = step + 1
           /\ (function = "show_duplicate_report" /\ ~Skipped(function)) =>
                /\ tree' = tree
                /\ OrderOfSteps[pc][step - 1] = "clean_folder_names"
                /\ ScoredNames(duplicates') \subseteq RootNames(tree))
    ]_vars

\* process_movies has renamed a folder and its report then holds the new
\* name beside the name of the release that could not be renamed
C25_Witness ==
  /\ pc = "done"
  /\ stats.folders_renamed = 1
  /\ config.check_duplicates
  /\ Len(report) = 1
  /\ \E i \in 1..Len(report[1]) :
       report[1][i].original_name = <<"H","e","a","t"," ","(","1","9","9","5",")">>
  /\ \E i \in 1..Len(report[1]) :
       report[1][i].original_name = <<"H","e","a","t",".","1","9","9","5",".","7","2","0","p">>

(***************************************************************************)
(* C26: after remove_empty_folders has run with dry_run false, no empty    *)
(* directory remains below the path: a directory that holds nothing but    *)
(* empty directories is removed in the same pass, nothing but directories  *)
(* is removed, and empty_folders_removed grows by the number of            *)
(* directories removed.  The path itself is no entry of the tree, so it    *)
(* is never among the entries removed.                                     *)
(***************************************************************************)
\* os.listdir(dir_path) of an entry of the tree
listdir(t, p) == {f \in t : Under(f.path, p) /\ Len(f.path) = Len(p) + 1}

\* the directories that hold nothing but empty directories, and are not empty
HoldsOnlyEmptyDirs(t) ==
  {e \in t : /\ e.dir
             /\ listdir(t, e.path) # {}
             /\ \A f \in listdir(t, e.path) : f.dir /\ listdir(t, f.path) = {}}

OnlyReleaseTag(tag) ==
  name \in {tag,
            <<"M","o","v","i","e",".">> \o tag,
            tag \o <<".","M","o","v","i","e">>}

\* the entries of the breakdown that belong to the HDR category
HdrEntries ==
  {i \in 1..Len(quality.details) :
     quality.details[i] \in {"HDR10+ (+15)", "Dolby Vision (+15)",
                             "HDR10 (+12)", "HDR (+10)"}}

\* C27 as stated: a source tag awards points only in the Source category: a
\* name whose only release tag is 'DVDRip' gets resolution 'Unknown' and
\* score 10, and a name whose only release tag is 'HDRip' gets hdr = false
\* and no HDR points.
C27_SourceTagScoresOnlyAsSource ==
  pc = "get_quality_score" =>
    /\ OnlyReleaseTag(<<"D","V","D","R","i","p">>) =>
         quality.resolution = "Unknown" /\ quality.score = 10
    /\ OnlyReleaseTag(<<"H","D","R","i","p">>) =>
         quality.hdr = FALSE /\ HdrEntries = {}

\* the source tags that hold no trigger of another category, and the points
\* of each
PlainSourceTags ==
  { [tag |-> <<"B","l","u","R","a","y">>, source |-> "BluRay", points |-> 30],
    [tag |-> <<"B","l","u","-","R","a","y">>, source |-> "BluRay", points |-> 30],
    [tag |-> <<"B","D","R","i","p">>, source |-> "BluRay", points |-> 30],
    [tag |-> <<"B","R","R","i","p">>, source |-> "BluRay", points |-> 30],
    [tag |-> <<"W","E","B","-","D","L">>, source |-> "WEB-DL", points |-> 25],
    [tag |-> <<"W","E","B","D","L">>, source |-> "WEB-DL", points |-> 25],
    [tag |-> <<"W","E","B","R","i","p">>, source |-> "WEBRip", points |-> 20],
    [tag |-> <<"H","D","T","V">>, source |-> "HDTV", points |-> 15] }

\* C27 amended: a tag awards points in every category one of whose trigger
\* substrings it holds.  A name whose only release tag is 'DVDRip' holds
\* 'dvd' and 'dvdrip': it gets resolution '480p' and source 'DVDRip', score
\* 40 + 10 = 50.  A name whose only release tag is 'HDRip' holds 'hdr' and no
\* source trigger: it gets source 'Unknown', hdr = true and 10 HDR points,
\* score 10.  A name whose only release tag is another source tag gets the
\* points of its source tier and nothing else.
C27_TagScoresWhereItsTriggersAre ==
  pc = "get_quality_score" =>
    /\ OnlyReleaseTag(<<"D","V","D","R","i","p">>) =>
         /\ quality.resolution = "480p"
         /\ quality.source = "DVDRip"
         /\ quality.hdr = FALSE
         /\ quality.details = <<"480p (+40)", "DVDRip (+10)">>
         /\ quality.score = 50
    /\ OnlyReleaseTag(<<"H","D","R","i","p">>) =>
         /\ quality.resolution = "Unknown"
         /\ quality.source = "Unknown"
         /\ quality.hdr = TRUE
         /\ quality.details = <<"HDR (+10)">>
         /\ quality.score = 10
    /\ \A t \in PlainSourceTags :
         OnlyReleaseTag(t.tag) =>
           /\ quality.resolution = "Unknown"
           /\ quality.source = t.source
           /\ quality.hdr = FALSE
           /\ Len(quality.details) = 1
           /\ quality.score = t.points

\* "Movie.DVDRip" has been scored 50
C27_Witness ==
  /\ pc = "get_quality_score"
  /\ name = <<"M","o","v","i","e",".","D","V","D","R","i","p">>
  /\ quality.score = 50

(***************************************************************************)
(* C28: cleaning a cleaned name                                            *)
(***************************************************************************)
\* C28: folder-name cleaning is idempotent: for every folder name and the
\* tag list in use, cleaning the cleaned name gives the cleaned name again.
C28_CleaningIsIdempotent ==
  pc = "clean_name" =>
    clean_name(new_name.final, tags) = new_name.final

\* "Old  Film 1999.1080p" has been cleaned to "Old  Film (1999)" with the
\* tags of Config
C28_Witness ==
  /\ pc = "clean_name"
  /\ tags = ConfigTags
  /\ name = <<"O","l","d"," "," ","F","i","l","m"," ","1","9","9","9",".","1","0","8","0","p">>
  /\ new_name.final = <<"O","l","d"," "," ","F","i","l","m"," ","(","1","9","9","9",")">>

\* C28, the second run: once clean_folder_names has run with dry_run false,
\* running it again over the library, in whatever order the folders are
\* listed, renames nothing and leaves folders_renamed as it is.
C28_SecondRunRenamesNothing ==
  [][(AtStep("clean_folder_names") /\ ~config.dry_run) =>
       (\A todo \in Orders(named_folders(tree', tags)) :
          clean_folder_names([tree |-> tree', stats |-> stats'], config, todo)
            = [tree |-> tree', stats |-> stats'])
  ]_vars

(***************************************************************************)
(* C29: archives whose extraction failed                                   *)
(***************************************************************************)
\* C29: extract_archives with dry_run false deletes an archive only if its
\* extraction succeeded: as many of the archives found as were counted in
\* archives_failed are still on disk when the function returns, and
\* archives_extracted and archives_failed together grow by the number of
\* archives found.
C29_FailedArchiveIsKept ==
  [][(AtStep("extract_archives") /\ ~config.dry_run /\ config.seven_zip_path) =>
       (LET found  == rglob(tree, archive_extensions)
            failed == stats'.archives_failed - stats.archives_failed
        IN  /\ Cardinality(found \cap tree') >= failed
            /\ (stats'.archives_extracted - stats.archives_extracted) + failed
                 = Cardinality(found))
  ]_vars

(***************************************************************************)
(* C30: trailers that lie in _Trailers already                             *)
(***************************************************************************)
\* the files of a library
Files(t) == {e \in t : ~e.dir}

\* C30: move_trailers_to_folder never overwrites a file that exists in
\* _Trailers, and it is idempotent: a trailer that lies in _Trailers already
\* is left in place under its name, so a second run of the step moves and
\* renames nothing and leaves trailers_moved unchanged.
C30_TrailersInPlaceStay ==
  [][(AtStep("move_trailers_to_folder") /\ config.keep_trailers /\ ~config.dry_run) =>
       (/\ Cardinality(Files(tree')) = Cardinality(Files(tree))
        /\ \A e \in Files(tree) : e.path[1] = TrailersFolder => e \in tree'
        /\ \A todo \in Orders(trailer_files(tree')) :
             move_trailers_to_folder([tree |-> tree', stats |-> stats'], config, todo)
               = [tree |-> tree', stats |-> stats'])
  ]_vars

=============================================================================
